---- MODULE Spec2Model ----
(***************************************************************************)
(* Price-archive service: POST /api/v0/prices ingests a zip/tar archive   *)
(* of CSV entries into table "prices"; GET /api/v0/prices exports the     *)
(* table, optionally filtered, as a zip holding data.csv.                 *)
(*                                                                         *)
(* Modelled program: the last variant in src/main.go (lines 569-1031).    *)
(* Text is modelled as sequences of one-character strings so that         *)
(* trimming, lower-casing, substring search, number and date parsing and  *)
(* formatting are computed the way the Go code computes them.             *)
(***************************************************************************)
EXTENDS Integers, Sequences, FiniteSets, TLC

(***************************************************************************)
(* Bounds of the model.                                                    *)
(***************************************************************************)
\* data rows read by one POST (over all its entries)
MaxRows == 3
\* archive entries met by one POST
MaxEntries == 1
\* POST requests in one behaviour
MaxPosts == 2
\* POST requests in one behaviour of the export specification, and rows read by one
MaxPostsGet == 1
MaxRowsGet == 2
\* the archive specification: entries of the archive and rows in its entries
MaxEntriesArchive == 3
MaxRowsArchive == 2
\* the schema specification: POST requests and rows in an archive
MaxPostsSchema == 2
MaxRowsSchema == 2
\* the concurrent specification: POST requests and rows in an archive
MaxPostsConcurrent == 2
MaxRowsConcurrent == 2
\* the column specification: rows in an archive
MaxRowsColumns == 1
MaxPostsScope == 2
MaxEntriesScope == 2
MaxRowsScope == 2
MaxRowsKeys == 2
MaxEntriesRead == 2
MaxRowsRead == 2

(***************************************************************************)
(* Text helpers (package strings, strconv, time).                          *)
(***************************************************************************)
DigitChars == <<"0", "1", "2", "3", "4", "5", "6", "7", "8", "9">>

SpaceChars == {" ", "\t", "\n", "\r"}

\* the value of a decimal digit, -1 for any other character
DigitVal(c) ==
    CASE c = "0" -> 0 [] c = "1" -> 1 [] c = "2" -> 2 [] c = "3" -> 3 [] c = "4" -> 4
      [] c = "5" -> 5 [] c = "6" -> 6 [] c = "7" -> 7 [] c = "8" -> 8 [] c = "9" -> 9
      [] OTHER -> -1

IsDigit(c) == DigitVal(c) >= 0

UpperChars == {"A", "B", "C", "D", "E", "F", "G", "H", "I", "J", "K", "L", "M",
               "N", "O", "P", "Q", "R", "S", "T", "U", "V", "W", "X", "Y", "Z"}

\* strings.ToLower on one character, then on a string
UpperToLower(c) ==
    CASE c = "A" -> "a"
      [] c = "B" -> "b"
      [] c = "C" -> "c"
      [] c = "D" -> "d"
      [] c = "E" -> "e"
      [] c = "F" -> "f"
      [] c = "G" -> "g"
      [] c = "H" -> "h"
      [] c = "I" -> "i"
      [] c = "J" -> "j"
      [] c = "K" -> "k"
      [] c = "L" -> "l"
      [] c = "M" -> "m"
      [] c = "N" -> "n"
      [] c = "O" -> "o"
      [] c = "P" -> "p"
      [] c = "Q" -> "q"
      [] c = "R" -> "r"
      [] c = "S" -> "s"
      [] c = "T" -> "t"
      [] c = "U" -> "u"
      [] c = "V" -> "v"
      [] c = "W" -> "w"
      [] c = "X" -> "x"
      [] c = "Y" -> "y"
      [] c = "Z" -> "z"
      [] OTHER -> c

LowerChar(c) == IF c \in UpperChars THEN UpperToLower(c) ELSE c

RECURSIVE ToLower(_)
ToLower(s) ==
    IF s = <<>> THEN <<>>
    ELSE <<LowerChar(Head(s))>> \o ToLower(Tail(s))

\* strings.TrimSpace: leading, then trailing white space is cut
RECURSIVE TrimLeft(_)
TrimLeft(s) ==
    IF s # <<>> /\ Head(s) \in SpaceChars THEN TrimLeft(Tail(s)) ELSE s

RECURSIVE TrimRight(_)
TrimRight(s) ==
    IF s # <<>> /\ s[Len(s)] \in SpaceChars THEN TrimRight(SubSeq(s, 1, Len(s) - 1)) ELSE s

TrimSpace(s) == TrimRight(TrimLeft(s))

\* strings.Contains
Contains(s, sub) ==
    \E i \in 0..(Len(s) - Len(sub)) : SubSeq(s, i + 1, i + Len(sub)) = sub

\* strings.HasSuffix
HasSuffix(s, suf) ==
    /\ Len(s) >= Len(suf)
    /\ SubSeq(s, Len(s) - Len(suf) + 1, Len(s)) = suf

\* value of a string of decimal digits
RECURSIVE DigitsVal(_)
DigitsVal(s) ==
    IF s = <<>> THEN 0
    ELSE DigitsVal(SubSeq(s, 1, Len(s) - 1)) * 10 + DigitVal(s[Len(s)])

AllDigits(s) == \A i \in 1..Len(s) : IsDigit(s[i])

\* strconv.Atoi: optional sign, then one or more decimal digits
Atoi(s) ==
    LET signed == Len(s) > 0 /\ s[1] \in {"+", "-"}
        body   == IF signed THEN Tail(s) ELSE s
    IN  IF body # <<>> /\ AllDigits(body)
        THEN [ok |-> TRUE,
              val |-> IF signed /\ s[1] = "-" THEN 0 - DigitsVal(body) ELSE DigitsVal(body)]
        ELSE [ok |-> FALSE, val |-> 0]

\* decimal digits of a natural number
RECURSIVE NatStr(_)
NatStr(n) ==
    IF n < 10 THEN <<DigitChars[n + 1]>>
    ELSE NatStr(n \div 10) \o <<DigitChars[(n % 10) + 1]>>

\* strconv.Itoa
Itoa(n) == IF n < 0 THEN <<"-">> \o NatStr(0 - n) ELSE NatStr(n)

\* a number zero-padded to w digits, as time.Format writes years, months, days
RECURSIVE Pad(_, _)
Pad(s, w) == IF Len(s) >= w THEN s ELSE Pad(<<"0">> \o s, w)

(***************************************************************************)
(* Calendar dates (package time).  A date is <<year, month, day>>; the nil *)
(* *time.Time and the SQL NULL are NoDate.                                 *)
(***************************************************************************)
NoDate == <<>>

IsLeap(y) == y % 4 = 0 /\ (y % 100 # 0 \/ y % 400 = 0)

\* time.daysIn
DaysIn(m, y) ==
    IF m = 2 THEN (IF IsLeap(y) THEN 29 ELSE 28)
    ELSE IF m \in {4, 6, 9, 11} THEN 30 ELSE 31

\* the range checks time.Parse applies to the parsed numbers
MakeDate(y, m, d) ==
    IF m >= 1 /\ m <= 12 /\ d >= 1 /\ d <= DaysIn(m, y)
    THEN [ok |-> TRUE, date |-> <<y, m, d>>]
    ELSE [ok |-> FALSE, date |-> NoDate]

\* time.Parse("2006-01-02", s)
ParseISO(s) ==
    IF /\ Len(s) = 10
       /\ AllDigits(SubSeq(s, 1, 4)) /\ s[5] = "-"
       /\ AllDigits(SubSeq(s, 6, 7)) /\ s[8] = "-"
       /\ AllDigits(SubSeq(s, 9, 10))
    THEN MakeDate(DigitsVal(SubSeq(s, 1, 4)), DigitsVal(SubSeq(s, 6, 7)),
                  DigitsVal(SubSeq(s, 9, 10)))
    ELSE [ok |-> FALSE, date |-> NoDate]

\* time.Parse("02.01.2006", s)
ParseDMY(s) ==
    IF /\ Len(s) = 10
       /\ AllDigits(SubSeq(s, 1, 2)) /\ s[3] = "."
       /\ AllDigits(SubSeq(s, 4, 5)) /\ s[6] = "."
       /\ AllDigits(SubSeq(s, 7, 10))
    THEN MakeDate(DigitsVal(SubSeq(s, 7, 10)), DigitsVal(SubSeq(s, 4, 5)),
                  DigitsVal(SubSeq(s, 1, 2)))
    ELSE [ok |-> FALSE, date |-> NoDate]

\* the ordered list of accepted formats in processCSV: the first that parses
ParseDate(s) ==
    IF ParseISO(s).ok THEN ParseISO(s).date
    ELSE IF ParseDMY(s).ok THEN ParseDMY(s).date
    ELSE NoDate

\* Time.Format("2006-01-02")
FormatDate(t) ==
    Pad(NatStr(t[1]), 4) \o <<"-">> \o Pad(NatStr(t[2]), 2) \o <<"-">> \o Pad(NatStr(t[3]), 2)

\* date order, as the store compares DATE values
DateLeq(a, b) ==
    \/ a[1] < b[1]
    \/ a[1] = b[1] /\ a[2] < b[2]
    \/ a[1] = b[1] /\ a[2] = b[2] /\ a[3] <= b[3]

(***************************************************************************)
(* Words the code looks for.                                               *)
(***************************************************************************)
wName     == <<"n", "a", "m", "e">>
wCategory == <<"c", "a", "t", "e", "g", "o", "r", "y">>
wPrice    == <<"p", "r", "i", "c", "e">>
wDate     == <<"d", "a", "t", "e">>
wCsv      == <<".", "c", "s", "v">>

(***************************************************************************)
(* processCSV, column resolution (main.go 786-828).  Indices are the Go    *)
(* 0-based indices; cell i of a row is row[i + 1].                         *)
(***************************************************************************)
\* the branch of the if / else-if chain that a header cell takes
HeaderField(cell) ==
    LET header == ToLower(TrimSpace(cell))
    IN  IF Contains(header, wName) THEN "name"
        ELSE IF Contains(header, wCategory) THEN "category"
        ELSE IF Contains(header, wPrice) THEN "price"
        ELSE IF Contains(header, wDate) THEN "date"
        ELSE "none"

\* the branch taken by each cell of the first row, in column order
RECURSIVE HeaderFields(_)
HeaderFields(headers) ==
    IF headers = <<>> THEN <<>>
    ELSE <<HeaderField(Head(headers))>> \o HeaderFields(Tail(headers))

\* the index the loop leaves in a field's variable: the last matching cell, or -1
MatchIdx(fields, field) ==
    LET hits == {i \in 0..(Len(fields) - 1) : fields[i + 1] = field}
    IN  IF hits = {} THEN -1
        ELSE CHOOSE i \in hits : \A j \in hits : j <= i

\* header match, then the positional fallbacks of lines 809-823
ResolveColumns(headers) ==
    LET fields == HeaderFields(headers)
        n  == MatchIdx(fields, "name")
        c  == MatchIdx(fields, "category")
        p  == MatchIdx(fields, "price")
        d  == MatchIdx(fields, "date")
    IN  [nameIdx     |-> IF n = -1 /\ Len(headers) >= 2 /\ headers[1] # <<>> THEN 1 ELSE n,
         categoryIdx |-> IF c = -1 /\ Len(headers) >= 3 THEN 2 ELSE c,
         priceIdx    |-> IF p = -1 /\ Len(headers) >= 4 THEN 3 ELSE p,
         dateIdx     |-> IF d = -1 /\ Len(headers) >= 5 THEN 4 ELSE d]

\* the check of line 826
ColumnsFound(cols) ==
    cols.nameIdx # -1 /\ cols.categoryIdx # -1 /\ cols.priceIdx # -1

NoCols == [nameIdx |-> -1, categoryIdx |-> -1, priceIdx |-> -1, dateIdx |-> -1]

(***************************************************************************)
(* processCSV, decoding of one row (main.go 843-878): the record the row   *)
(* yields, or the reason it is skipped.                                    *)
(***************************************************************************)
NoRecord == [name |-> <<>>, category |-> <<>>, price |-> 0, date |-> NoDate]

\* a decoder that takes a date matching no accepted format for an absent date
DecodeRowLenientDate(row, cols) ==
    IF cols.nameIdx >= Len(row) \/ cols.categoryIdx >= Len(row) \/ cols.priceIdx >= Len(row)
    THEN [tag |-> "malformed-width", rec |-> NoRecord]
    ELSE
    LET name     == TrimSpace(row[cols.nameIdx + 1])
        category == TrimSpace(row[cols.categoryIdx + 1])
        priceStr == TrimSpace(row[cols.priceIdx + 1])
        price    == Atoi(priceStr)
        hasDate  == cols.dateIdx # -1 /\ cols.dateIdx < Len(row) /\ row[cols.dateIdx + 1] # <<>>
        date     == IF hasDate THEN ParseDate(TrimSpace(row[cols.dateIdx + 1])) ELSE NoDate
    IN  IF name = <<>> \/ category = <<>> \/ priceStr = <<>>
        THEN [tag |-> "missing-field", rec |-> NoRecord]
        ELSE IF ~price.ok
        THEN [tag |-> "bad-price", rec |-> NoRecord]
        ELSE [tag |-> "ok",
              rec |-> [name |-> name, category |-> category, price |-> price.val, date |-> date]]

\* a decoder whose width check takes in the date column
DecodeRowDateWidth(row, cols) ==
    IF \/ cols.nameIdx >= Len(row) \/ cols.categoryIdx >= Len(row) \/ cols.priceIdx >= Len(row)
       \/ cols.dateIdx >= Len(row)
    THEN [tag |-> "malformed-width", rec |-> NoRecord]
    ELSE
    LET name     == TrimSpace(row[cols.nameIdx + 1])
        category == TrimSpace(row[cols.categoryIdx + 1])
        priceStr == TrimSpace(row[cols.priceIdx + 1])
        price    == Atoi(priceStr)
        hasDate  == cols.dateIdx # -1 /\ row[cols.dateIdx + 1] # <<>>
        dateStr  == IF hasDate THEN TrimSpace(row[cols.dateIdx + 1]) ELSE <<>>
        date     == IF hasDate THEN ParseDate(dateStr) ELSE NoDate
    IN  IF name = <<>> \/ category = <<>> \/ priceStr = <<>>
        THEN [tag |-> "missing-field", rec |-> NoRecord]
        ELSE IF ~price.ok
        THEN [tag |-> "bad-price", rec |-> NoRecord]
        ELSE IF hasDate /\ dateStr # <<>> /\ date = NoDate
        THEN [tag |-> "bad-date", rec |-> NoRecord]
        ELSE [tag |-> "ok",
              rec |-> [name |-> name, category |-> category, price |-> price.val, date |-> date]]

DecodeRow(row, cols) ==
    IF cols.nameIdx >= Len(row) \/ cols.categoryIdx >= Len(row) \/ cols.priceIdx >= Len(row)
    THEN [tag |-> "malformed-width", rec |-> NoRecord]
    ELSE
    LET name     == TrimSpace(row[cols.nameIdx + 1])
        category == TrimSpace(row[cols.categoryIdx + 1])
        priceStr == TrimSpace(row[cols.priceIdx + 1])
        price    == Atoi(priceStr)
        hasDate  == cols.dateIdx # -1 /\ cols.dateIdx < Len(row) /\ row[cols.dateIdx + 1] # <<>>
        dateStr  == IF hasDate THEN TrimSpace(row[cols.dateIdx + 1]) ELSE <<>>
        date     == IF hasDate THEN ParseDate(dateStr) ELSE NoDate
    IN  IF name = <<>> \/ category = <<>> \/ priceStr = <<>>
        THEN [tag |-> "missing-field", rec |-> NoRecord]
        ELSE IF ~price.ok
        THEN [tag |-> "bad-price", rec |-> NoRecord]
        ELSE IF hasDate /\ dateStr # <<>> /\ date = NoDate
        THEN [tag |-> "bad-date", rec |-> NoRecord]
        ELSE [tag |-> "ok",
              rec |-> [name |-> name, category |-> category, price |-> price.val, date |-> date]]

\* itemKey (main.go 880-885): fmt.Sprintf("%s|%s|%d|%s", name, category, price, dateKey)
ItemKey(rec) ==
    rec.name \o <<"|">> \o rec.category \o <<"|">> \o Itoa(rec.price) \o <<"|">>
        \o (IF rec.date # NoDate THEN FormatDate(rec.date) ELSE <<>>)

\* a check that finds no key
SeenNever(seenItems, key) == FALSE

\* the duplicate check of line 888
Seen(seenItems, key) == key \in seenItems

\* the classification of a failed insert (main.go 906-915)
wDuplicate == <<"d", "u", "p", "l", "i", "c", "a", "t", "e">>
wUnique    == <<"u", "n", "i", "q", "u", "e">>

IsDuplicateError(msg) ==
    Contains(ToLower(msg), wDuplicate) \/ Contains(ToLower(msg), wUnique)

\* what becomes of a row: "skip", "dup" (seen before), or the result of its insert
\* ("ok", "conflict", "error"); errInsert is the error text db.Exec returned, <<>> for nil
RowOutcome(decoded, seenItems, errInsert) ==
    IF decoded.tag # "ok" THEN "skip"
    ELSE IF Seen(seenItems, ItemKey(decoded.rec)) THEN "dup"
    ELSE IF errInsert = <<>> THEN "ok"
    ELSE IF IsDuplicateError(errInsert) THEN "conflict"
    ELSE "error"

\* the counters and the category set handlePost passes to processCSV
ZeroStats == [rows |-> 0, items |-> 0, dups |-> 0, price |-> 0, categories |-> {}]

\* an update that counts only the rows that were not skipped
StatsAfterValidOnly(st, outcome, rec) ==
    [rows       |-> IF outcome # "skip" THEN st.rows + 1 ELSE st.rows,
     dups       |-> IF outcome \in {"dup", "conflict"} THEN st.dups + 1 ELSE st.dups,
     items      |-> IF outcome = "ok" THEN st.items + 1 ELSE st.items,
     price      |-> IF outcome = "ok" THEN st.price + rec.price ELSE st.price,
     categories |-> IF outcome = "ok" THEN st.categories \cup {rec.category} ELSE st.categories]

\* an update that adds the price and category of a row the store refused as a conflict
StatsAfterSentRows(st, outcome, rec) ==
    [rows       |-> st.rows + 1,
     dups       |-> IF outcome \in {"dup", "conflict"} THEN st.dups + 1 ELSE st.dups,
     items      |-> IF outcome = "ok" THEN st.items + 1 ELSE st.items,
     price      |-> IF outcome \in {"ok", "conflict"} THEN st.price + rec.price ELSE st.price,
     categories |-> IF outcome \in {"ok", "conflict"} THEN st.categories \cup {rec.category}
                    ELSE st.categories]

\* an update that counts a conflict as an inserted row
StatsAfterConflictInserted(st, outcome, rec) ==
    [rows       |-> st.rows + 1,
     dups       |-> IF outcome = "dup" THEN st.dups + 1 ELSE st.dups,
     items      |-> IF outcome \in {"ok", "conflict"} THEN st.items + 1 ELSE st.items,
     price      |-> IF outcome = "ok" THEN st.price + rec.price ELSE st.price,
     categories |-> IF outcome = "ok" THEN st.categories \cup {rec.category} ELSE st.categories]

\* their update by one iteration of the row loop (lines 841, 889, 910, 917-919)
StatsAfter(st, outcome, rec) ==
    [rows       |-> st.rows + 1,
     dups       |-> IF outcome \in {"dup", "conflict"} THEN st.dups + 1 ELSE st.dups,
     items      |-> IF outcome = "ok" THEN st.items + 1 ELSE st.items,
     price      |-> IF outcome = "ok" THEN st.price + rec.price ELSE st.price,
     categories |-> IF outcome = "ok" THEN st.categories \cup {rec.category} ELSE st.categories]

\* the Stats value handlePost encodes (lines 760-766)
StatsResponse(st) ==
    [total_count      |-> st.rows,
     duplicates_count |-> st.dups,
     total_items      |-> st.items,
     total_categories |-> Cardinality(st.categories),
     total_price      |-> st.price]

NoStats == [total_count |-> -1, duplicates_count |-> -1, total_items |-> -1,
            total_categories |-> -1, total_price |-> -1]

(***************************************************************************)
(* The store: table prices, a sequence of rows in id order.                *)
(***************************************************************************)
\* INSERT INTO prices(name, category, price[, create_date]) (lines 896-904)
InsertRow(rows, id, rec) ==
    Append(rows, [id |-> id, name |-> rec.name, category |-> rec.category,
                  price |-> rec.price, date |-> rec.date])

\* the TRUNCATE TABLE prices of the earlier variant
StoreOnPostTruncate(rows) == <<>>

\* handlePost leaves the table as it finds it: the TRUNCATE of the earlier
\* variants was removed (comment at line 656)
StoreOnPost(rows) == rows

\* the record a stored row holds
RowRecord(row) ==
    [name |-> row.name, category |-> row.category, price |-> row.price, date |-> row.date]

(***************************************************************************)
(* handleGet: the query it builds and what the store answers.              *)
(***************************************************************************)
\* a handler that ignores min
MinArgZero(minPrice) == 0

\* a handler that replaces an unparseable max by 0
MaxArgZero(maxPrice) == IF Atoi(maxPrice).ok THEN Atoi(maxPrice).val ELSE 0

\* the bound handleGet passes for min (lines 947-955) and max (956-964)
MinArg(minPrice) == IF Atoi(minPrice).ok THEN Atoi(minPrice).val ELSE 0

MaxArg(maxPrice) == IF Atoi(maxPrice).ok THEN Atoi(maxPrice).val ELSE 1000000

\* the conjuncts appended to "WHERE 1=1" and their arguments (lines 933-966)
BuildQuery(startDate, endDate, minPrice, maxPrice) ==
    [hasStart |-> startDate # <<>>, start |-> startDate,
     hasEnd   |-> endDate # <<>>,   end   |-> endDate,
     hasMin   |-> minPrice # <<>>,  min   |-> MinArg(minPrice),
     hasMax   |-> maxPrice # <<>>,  max   |-> MaxArg(maxPrice)]

\* the store rejects a query whose date argument is not a date
QueryRejected(q) ==
    \/ q.hasStart /\ ~ParseISO(q.start).ok
    \/ q.hasEnd /\ ~ParseISO(q.end).ok

\* the WHERE clause on one row; a comparison with a NULL create_date is not true
RowMatches(row, q) ==
    /\ q.hasStart => (row.date # NoDate /\ DateLeq(ParseISO(q.start).date, row.date))
    /\ q.hasEnd   => (row.date # NoDate /\ DateLeq(row.date, ParseISO(q.end).date))
    /\ q.hasMin   => row.price >= q.min
    /\ q.hasMax   => row.price <= q.max

\* ORDER BY id
RECURSIVE OrderById(_)
OrderById(rowSet) ==
    IF rowSet = {} THEN <<>>
    ELSE LET first == CHOOSE x \in rowSet : \A y \in rowSet : x.id <= y.id
         IN  <<first>> \o OrderById(rowSet \ {first})

\* the same rows, newest first
SelectNewestFirst(rows, q) ==
    LET res == OrderById({rows[i] : i \in {j \in 1..Len(rows) : RowMatches(rows[j], q)}})
    IN  [i \in 1..Len(res) |-> res[Len(res) + 1 - i]]

\* SELECT name, category, price, create_date FROM prices WHERE ... ORDER BY id
Select(rows, q) ==
    OrderById({rows[i] : i \in {j \in 1..Len(rows) : RowMatches(rows[j], q)}})

\* the CSV row written for a result row (lines 1003-1008)
EncodeRow(row) ==
    <<row.name, row.category, Itoa(row.price),
      IF row.date # NoDate THEN FormatDate(row.date) ELSE <<>>>>

EncodeRows(res) == [i \in 1..Len(res) |-> EncodeRow(res[i])]

(***************************************************************************)
(* Inputs: the requests a client sends and the answers of the store.       *)
(***************************************************************************)
sApple  == <<"a", "p", "p", "l", "e">>
sFruit  == <<"f", "r", "u", "i", "t">>
sBread  == <<"b", "r", "e", "a", "d">>
sBakery == <<"b", "a", "k", "e", "r", "y">>

\* names of archive entries
EntryNames == {<<"d", "a", "t", "a", ".", "c", "s", "v">>, <<"D", ".", "C", "S", "V">>, <<"a", ".", "t", "x", "t">>}

\* first rows of a CSV entry
hNameCategoryPrice == <<<<"n", "a", "m", "e">>, <<"c", "a", "t", "e", "g", "o", "r", "y">>, <<"p", "r", "i", "c", "e">>>>
hIdNameCategoryPriceDate == <<<<"i", "d">>, <<"n", "a", "m", "e">>, <<"c", "a", "t", "e", "g", "o", "r", "y">>, <<"p", "r", "i", "c", "e">>, <<"c", "r", "e", "a", "t", "e", "_", "d", "a", "t", "e">>>>
hData4 == <<<<"1">>, <<"a", "p", "p", "l", "e">>, <<"f", "r", "u", "i", "t">>, <<"1", "0", "0">>>>
hData3 == <<<<"a", "p", "p", "l", "e">>, <<"f", "r", "u", "i", "t">>, <<"1", "0", "0">>>>

HeaderRows == {hNameCategoryPrice, hIdNameCategoryPriceDate, hData4, hData3}

\* rows after the first
DataRows ==
    {<<<<"a", "p", "p", "l", "e">>, <<"f", "r", "u", "i", "t">>, <<"1", "0", "0">>>>,
     <<<<"b", "r", "e", "a", "d">>, <<"b", "a", "k", "e", "r", "y">>, <<"5", "0">>>>,
     <<<<" ", "a", "p", "p", "l", "e">>, <<"f", "r", "u", "i", "t">>, <<"1", "0", "0", " ">>>>,
     <<<<"a", "p", "p", "l", "e">>, <<"f", "r", "u", "i", "t">>, <<"a", "b", "c">>>>,
     <<<<"a", "p", "p", "l", "e">>, <<>>, <<"1", "0", "0">>>>,
     <<<<"1">>, <<"a", "p", "p", "l", "e">>, <<"f", "r", "u", "i", "t">>, <<"1", "0", "0">>, <<"2", "0", "2", "4", "-", "0", "1", "-", "0", "2">>>>,
     <<<<"2">>, <<"a", "p", "p", "l", "e">>, <<"f", "r", "u", "i", "t">>, <<"1", "0", "0">>, <<"0", "2", ".", "0", "1", ".", "2", "0", "2", "4">>>>,
     <<<<"3">>, <<"b", "r", "e", "a", "d">>, <<"b", "a", "k", "e", "r", "y">>, <<"5", "0">>, <<"3", "1", ".", "0", "2", ".", "2", "0", "2", "4">>>>,
     <<<<"4">>, <<"b", "r", "e", "a", "d">>, <<"b", "a", "k", "e", "r", "y">>, <<"5", "0">>, <<"2", "0", "2", "3", "-", "1", "2", "-", "3", "1">>>>,
     <<<<"a", "p", "p", "l", "e">>>>}

\* error texts of a failed INSERT; <<>> is a nil error
InsertErrors == {<<>>, <<"p", "q", ":", " ", "d", "u", "p", "l", "i", "c", "a", "t", "e", " ", "k", "e", "y">>, <<"p", "q", ":", " ", "b", "a", "d", " ", "c", "o", "n", "n", "e", "c", "t", "i", "o", "n">>}

\* values of the query parameters start, end, min and max; <<>> is an absent one
StartValues == {<<>>, <<"2", "0", "2", "4", "-", "0", "1", "-", "0", "1">>, <<"b", "a", "d">>}
EndValues   == {<<>>, <<"2", "0", "2", "4", "-", "0", "1", "-", "0", "1">>}
MinValues   == {<<>>, <<"6", "0">>, <<"a", "b", "c">>}
MaxValues   == {<<>>, <<"6", "0">>, <<"a", "b", "c">>}

\* values of the query parameter type
ArchiveTypes == {"", "zip", "tar", "rar"}

\* request slots: net/http serves every request in a goroutine of its own
Slots == {1, 2}

\* the one request slot of the sequential specification
Req == {1}

\* the columns of table prices (main.go 625-633)
PricesColumns == {"id", "name", "category", "price", "create_date"}

\* the schema CREATE TABLE prices establishes
PricesSchema == [exists |-> TRUE, columns |-> PricesColumns]

(***************************************************************************)
(* State.                                                                  *)
(***************************************************************************)
VARIABLES
    schema,   \* table prices: whether it exists and the columns it has
    store,    \* table prices: its rows in id order
    nextId,   \* next value of the id sequence (SERIAL)
    posts,    \* POST requests received so far
    h,        \* h[r]: the locals of the handler serving request r
    resp,     \* resp[r]: the response written to request r
    hist      \* hist[r]: what request r has read and sent so far

vars == <<schema, store, nextId, posts, h, resp, hist>>

\* locals of handlePost / processCSV (lines 679-684, 787); pc is the handler's position
FreshLocals ==
    [pc |-> "idle", method |-> "", queryType |-> "", processedAnyCSV |-> FALSE,
     headers |-> <<>>, cols |-> NoCols, st |-> ZeroStats, seenItems |-> {}]

NoFilters == [start |-> <<>>, end |-> <<>>, min |-> <<>>, max |-> <<>>]

\* history of a request: the table when it arrived, the entries and rows it read,
\* the record each valid row decoded to with what became of it ("dup", "ok",
\* "conflict" or "error") and the tabular entry it stood in, the GET parameters,
\* the fault met (of the store on a GET, of the entry's reader on a POST), the
\* parity of the reads that failed, and whether the request directly followed a
\* POST answered with statistics
FreshHist ==
    [store0 |-> <<>>, nEntries |-> 0, nCSV |-> 0, nRows |-> 0, valid |-> <<>>,
     validEntry |-> <<>>, filters |-> NoFilters, fault |-> "none", failedReads |-> 0,
     afterPost |-> FALSE]

NoResponse == [status |-> 0, msg |-> "", stats |-> NoStats, rows |-> <<>>]

\* http.Error(w, msg, status)
ErrorResponse(status, msg) == [status |-> status, msg |-> msg, stats |-> NoStats, rows |-> <<>>]

\* a reply that takes an upload without data rows for one without tabular data
StatsReplyUnlessEmpty(st) ==
    IF st.rows = 0
    THEN [status |-> 400, msg |-> "no csv files found", stats |-> NoStats, rows |-> <<>>]
    ELSE [status |-> 200, msg |-> "", stats |-> StatsResponse(st), rows |-> <<>>]

\* json.NewEncoder(w).Encode(response) with the implicit status 200
StatsReply(st) == [status |-> 200, msg |-> "", stats |-> StatsResponse(st), rows |-> <<>>]

\* w.Write(buf.Bytes()) of the zip holding data.csv, with the implicit status 200
ArchiveReply(rows) == [status |-> 200, msg |-> "", stats |-> NoStats, rows |-> rows]

Init ==
    /\ schema = PricesSchema
    /\ store = <<>>
    /\ nextId = 1
    /\ posts = 0
    /\ h = [r \in Slots |-> FreshLocals]
    /\ resp = [r \in Slots |-> NoResponse]
    /\ hist = [r \in Slots |-> FreshHist]

\* the slot is free: no handler runs in it
Ready(r) == h[r].pc \in {"idle", "done"}

\* the previous request of the slot was a POST answered with statistics
PostSucceeded(r) == h[r].pc = "done" /\ h[r].method = "POST" /\ resp[r].status = 200

\* the handler returns after writing response rsp
Return(r, method, rsp) ==
    /\ h' = [h EXCEPT ![r] = [@ EXCEPT !.pc = "done", !.method = method]]
    /\ resp' = [resp EXCEPT ![r] = rsp]

(***************************************************************************)
(* pricesHandler (lines 642-651).                                          *)
(***************************************************************************)
MethodNotAllowed(r) ==
    /\ Ready(r)
    /\ h' = [h EXCEPT ![r] = [FreshLocals EXCEPT !.pc = "done", !.method = "OTHER"]]
    /\ resp' = [resp EXCEPT ![r] = ErrorResponse(405, "Method not allowed")]
    /\ hist' = [hist EXCEPT ![r] = [FreshHist EXCEPT !.store0 = store, !.afterPost = PostSucceeded(r)]]
    /\ UNCHANGED <<schema, store, nextId, posts>>

(***************************************************************************)
(* handlePost (lines 653-770).                                             *)
(***************************************************************************)
\* the multipart form cannot be parsed, has no field "file", or cannot be read
PostBadUpload(r) ==
    /\ Ready(r)
    /\ \E msg \in {"multipart error", "file missing", "read error"} :
          resp' = [resp EXCEPT ![r] = ErrorResponse(400, msg)]
    /\ h' = [h EXCEPT ![r] = [FreshLocals EXCEPT !.pc = "done", !.method = "POST"]]
    /\ hist' = [hist EXCEPT ![r] = [FreshHist EXCEPT !.store0 = store]]
    /\ posts' = posts + 1
    /\ UNCHANGED <<schema, store, nextId>>

\* zip.NewReader fails, or the type is neither zip nor tar
PostBadArchive(r) ==
    /\ Ready(r)
    /\ \E queryType \in ArchiveTypes :
          /\ queryType # "tar"
          /\ h' = [h EXCEPT ![r] = [FreshLocals EXCEPT !.pc = "done", !.method = "POST",
                                                       !.queryType = queryType]]
          /\ resp' = [resp EXCEPT ![r] =
                        IF queryType \in {"zip", ""}
                        THEN ErrorResponse(400, "invalid zip")
                        ELSE ErrorResponse(400, "unsupported archive type")]
    /\ hist' = [hist EXCEPT ![r] = [FreshHist EXCEPT !.store0 = store]]
    /\ posts' = posts + 1
    /\ UNCHANGED <<schema, store, nextId>>

\* the upload is read and the archive reader is created: the entry loop starts
PostOpen(r) ==
    /\ Ready(r)
    /\ \E queryType \in ArchiveTypes :
          /\ queryType \in {"zip", "", "tar"}
          /\ h' = [h EXCEPT ![r] = [FreshLocals EXCEPT !.pc = "entries", !.method = "POST",
                                                       !.queryType = queryType]]
    /\ resp' = [resp EXCEPT ![r] = NoResponse]
    /\ hist' = [hist EXCEPT ![r] = [FreshHist EXCEPT !.store0 = store]]
    /\ store' = StoreOnPost(store)
    /\ posts' = posts + 1
    /\ UNCHANGED <<schema, nextId>>

\* strings.HasSuffix(strings.ToLower(name), ".csv")
IsCSVName(name) == HasSuffix(ToLower(name), wCsv)

\* an entry whose name does not end in .csv is passed over
SkipEntry(r) ==
    /\ h[r].pc = "entries"
    /\ \E name \in EntryNames : ~IsCSVName(name)
    /\ hist' = [hist EXCEPT ![r].nEntries = @ + 1]
    /\ UNCHANGED <<schema, store, nextId, posts, h, resp>>

\* zip only: f.Open fails on a .csv entry, the loop goes on (lines 701-705)
OpenEntryFail(r) ==
    /\ h[r].pc = "entries"
    /\ h[r].queryType # "tar"
    /\ \E name \in EntryNames : IsCSVName(name)
    /\ hist' = [hist EXCEPT ![r].nEntries = @ + 1, ![r].nCSV = @ + 1]
    /\ UNCHANGED <<schema, store, nextId, posts, h, resp>>

\* tar only: tr.Next returns an error other than io.EOF (lines 733-737)
TarError(r) ==
    /\ h[r].pc = "entries"
    /\ h[r].queryType = "tar"
    /\ Return(r, "POST", ErrorResponse(400, "invalid tar"))
    /\ hist' = [hist EXCEPT ![r].nEntries = @ + 1]
    /\ UNCHANGED <<schema, store, nextId, posts>>

(***************************************************************************)
(* processCSV (lines 772-923), called by handlePost for a .csv entry.      *)
(***************************************************************************)
\* a reader that counts a first row without header names as a data row
AfterHeadersCounted(locals, headers) ==
    [locals EXCEPT !.pc = "rows", !.headers = headers, !.cols = ResolveColumns(headers),
                   !.st = IF \A i \in 1..Len(headers) : HeaderField(headers[i]) = "none"
                          THEN [@ EXCEPT !.rows = @ + 1]
                          ELSE @]

\* a reader that starts every entry with an empty set of seen keys
AfterHeadersFreshKeys(locals, headers) ==
    [locals EXCEPT !.pc = "rows", !.headers = headers, !.cols = ResolveColumns(headers),
                   !.seenItems = {}]

\* a reader that starts every entry with counters of zero
AfterHeadersFreshStats(locals, headers) ==
    [locals EXCEPT !.pc = "rows", !.headers = headers, !.cols = ResolveColumns(headers),
                   !.st = ZeroStats]

\* the locals once the first row has been read and the columns resolved: the
\* first row is used for the column indices only (lines 780-828)
AfterHeaders(locals, headers) ==
    [locals EXCEPT !.pc = "rows", !.headers = headers, !.cols = ResolveColumns(headers)]

\* the first row, drawn from firstRows, is read and resolves name, category and
\* price: the row loop starts
ProcessCSVBeginOf(r, firstRows) ==
    /\ h[r].pc = "entries"
    /\ \E name \in EntryNames : IsCSVName(name)
    /\ \E headers \in firstRows :
          /\ ColumnsFound(ResolveColumns(headers))
          /\ h' = [h EXCEPT ![r] = AfterHeaders(@, headers)]
    /\ hist' = [hist EXCEPT ![r].nEntries = @ + 1, ![r].nCSV = @ + 1]
    /\ UNCHANGED <<schema, store, nextId, posts, resp>>

ProcessCSVBegin(r) == ProcessCSVBeginOf(r, HeaderRows)

\* what makes reader.Read fail on the first row: the entry has no rows at all
\* (io.EOF), or the entry cannot be read (line 781)
FirstReadFaults == {"empty-entry", "read-error"}

\* reader.Read fails on the first row, as on an entry without rows (lines 781-784)
ProcessCSVNoHeaders(r) ==
    /\ h[r].pc = "entries"
    /\ \E name \in EntryNames : IsCSVName(name)
    /\ Return(r, "POST", ErrorResponse(400, "csv processing error"))
    /\ \E cause \in FirstReadFaults :
          hist' = [hist EXCEPT ![r].nEntries = @ + 1, ![r].nCSV = @ + 1,
                               ![r].fault = cause]
    /\ UNCHANGED <<schema, store, nextId, posts>>

\* the first row, drawn from firstRows, leaves name, category or price unresolved
\* (lines 826-828)
ProcessCSVColumnsNotFoundOf(r, firstRows) ==
    /\ h[r].pc = "entries"
    /\ \E name \in EntryNames : IsCSVName(name)
    /\ \E headers \in firstRows :
          /\ ~ColumnsFound(ResolveColumns(headers))
          /\ h' = [h EXCEPT ![r] = [@ EXCEPT !.pc = "done", !.headers = headers,
                                             !.cols = ResolveColumns(headers)]]
    /\ resp' = [resp EXCEPT ![r] = ErrorResponse(400, "csv processing error")]
    /\ hist' = [hist EXCEPT ![r].nEntries = @ + 1, ![r].nCSV = @ + 1]
    /\ UNCHANGED <<schema, store, nextId, posts>>

ProcessCSVColumnsNotFound(r) == ProcessCSVColumnsNotFoundOf(r, HeaderRows)

\* one iteration of the row loop (lines 831-920): a row is read, decoded, checked
\* against seenItems and, when new, sent to the store, which answers errInsert
RowStep(r, row, errInsert) ==
    LET decoded == DecodeRow(row, h[r].cols)
        rec     == decoded.rec
        outcome == RowOutcome(decoded, h[r].seenItems, errInsert)
        isSent  == outcome \in {"ok", "conflict", "error"}
    IN  /\ h' = [h EXCEPT ![r] =
                   [@ EXCEPT !.st = StatsAfter(@, outcome, rec),
                             !.seenItems = IF isSent THEN @ \cup {ItemKey(rec)} ELSE @,
                             !.pc = IF outcome = "error" THEN "done" ELSE "rows"]]
        /\ store' = IF outcome = "ok" THEN InsertRow(store, nextId, rec) ELSE store
        /\ nextId' = IF outcome = "ok" THEN nextId + 1 ELSE nextId
        /\ resp' = IF outcome = "error"
                   THEN [resp EXCEPT ![r] = ErrorResponse(400, "csv processing error")]
                   ELSE resp
        /\ hist' = [hist EXCEPT
                      ![r].nRows = @ + 1,
                      ![r].valid = IF decoded.tag = "ok"
                                   THEN Append(@, [rec |-> rec, outcome |-> outcome])
                                   ELSE @,
                      ![r].validEntry = IF decoded.tag = "ok"
                                        THEN Append(@, hist[r].nCSV)
                                        ELSE @]
        /\ UNCHANGED <<schema, posts>>

\* the row reaches the INSERT: it decodes to a record whose key is new
ReachesInsert(r, row) ==
    LET decoded == DecodeRow(row, h[r].cols)
    IN  decoded.tag = "ok" /\ ~Seen(h[r].seenItems, ItemKey(decoded.rec))

\* the row loop over rows drawn from rows, inserts answered from errs
ProcessRowOf(r, rows, errs) ==
    /\ h[r].pc = "rows"
    /\ \E row \in rows :
          \E errInsert \in (IF ReachesInsert(r, row) THEN errs ELSE {<<>>}) :
             RowStep(r, row, errInsert)

ProcessRow(r) == ProcessRowOf(r, DataRows, InsertErrors)

\* the entry can still be read: no read of it has failed
Readable(r) == hist[r].fault # "read-error"

\* reader.Read returns an error that is not io.EOF, as the reader of a damaged
\* entry does on every call once it has met the damage: the error is logged, the
\* row is not counted and the loop reads again (lines 836-839)
RowReadError(r) ==
    /\ h[r].pc = "rows"
    /\ hist' = [hist EXCEPT ![r].fault = "read-error", ![r].failedReads = 1 - @]
    /\ UNCHANGED <<schema, store, nextId, posts, h, resp>>

\* reader.Read returns io.EOF: processCSV returns nil and the entry loop goes on
RowsEOF(r) ==
    /\ h[r].pc = "rows"
    /\ h' = [h EXCEPT ![r] = [@ EXCEPT !.pc = "entries", !.processedAnyCSV = TRUE]]
    /\ UNCHANGED <<schema, store, nextId, posts, resp, hist>>

\* the archive has no further entry: the statistics, or "no csv files found"
ArchiveEnd(r) ==
    /\ h[r].pc = "entries"
    /\ Return(r, "POST",
              IF h[r].processedAnyCSV
              THEN StatsReply(h[r].st)
              ELSE ErrorResponse(400, "no csv files found"))
    /\ UNCHANGED <<schema, store, nextId, posts, hist>>

(***************************************************************************)
(* handleGet (lines 925-1031).                                             *)
(***************************************************************************)
\* a GET that empties the table it has read
GetDoneClearing(r, startDate, endDate, minPrice, maxPrice, fault) ==
    /\ h' = [h EXCEPT ![r] = [FreshLocals EXCEPT !.pc = "done", !.method = "GET"]]
    /\ hist' = [hist EXCEPT ![r] =
                  [FreshHist EXCEPT !.store0 = store,
                                    !.filters = [start |-> startDate, end |-> endDate,
                                                 min |-> minPrice, max |-> maxPrice],
                                    !.fault = fault,
                                    !.afterPost = PostSucceeded(r)]]
    /\ store' = <<>>
    /\ UNCHANGED <<schema, nextId, posts>>

\* the handler's state and history after a GET with the given parameters
GetDone(r, startDate, endDate, minPrice, maxPrice, fault) ==
    /\ h' = [h EXCEPT ![r] = [FreshLocals EXCEPT !.pc = "done", !.method = "GET"]]
    /\ hist' = [hist EXCEPT ![r] =
                  [FreshHist EXCEPT !.store0 = store,
                                    !.filters = [start |-> startDate, end |-> endDate,
                                                 min |-> minPrice, max |-> maxPrice],
                                    !.fault = fault,
                                    !.afterPost = PostSucceeded(r)]]
    /\ UNCHANGED <<schema, store, nextId, posts>>

\* the query runs and every result row is written to data.csv
GetOk(r, startDate, endDate, minPrice, maxPrice) ==
    LET q == BuildQuery(startDate, endDate, minPrice, maxPrice)
    IN  /\ ~QueryRejected(q)
        /\ resp' = [resp EXCEPT ![r] = ArchiveReply(EncodeRows(Select(store, q)))]
        /\ GetDone(r, startDate, endDate, minPrice, maxPrice, "none")

\* db.Query returns an error: the store rejects an argument or is unavailable
GetQueryError(r, startDate, endDate, minPrice, maxPrice, unavailable) ==
    LET q == BuildQuery(startDate, endDate, minPrice, maxPrice)
    IN  /\ QueryRejected(q) \/ unavailable
        /\ resp' = [resp EXCEPT ![r] = ErrorResponse(500, "db query error")]
        /\ GetDone(r, startDate, endDate, minPrice, maxPrice,
                   IF QueryRejected(q) THEN "rejected" ELSE "query")

\* the result set breaks off after k rows: rows.Err is logged only (lines 1014-1016)
GetIterError(r, startDate, endDate, minPrice, maxPrice) ==
    LET q   == BuildQuery(startDate, endDate, minPrice, maxPrice)
        res == Select(store, q)
    IN  /\ ~QueryRejected(q)
        /\ \E k \in 0..(Len(res) - 1) :
              resp' = [resp EXCEPT ![r] = ArchiveReply(EncodeRows(SubSeq(res, 1, k)))]
        /\ GetDone(r, startDate, endDate, minPrice, maxPrice, "iter")

\* a GET without query parameters
HandleGet(r) ==
    /\ Ready(r)
    /\ GetOk(r, <<>>, <<>>, <<>>, <<>>)

HandleGetQueryError(r) ==
    /\ Ready(r)
    /\ GetQueryError(r, <<>>, <<>>, <<>>, <<>>, TRUE)

HandleGetIterError(r) ==
    /\ Ready(r)
    /\ GetIterError(r, <<>>, <<>>, <<>>, <<>>)

\* a GET with query parameters drawn from the value sets
HandleGetFiltered(r) ==
    /\ Ready(r)
    /\ \E startDate \in StartValues, endDate \in EndValues,
          minPrice \in MinValues, maxPrice \in MaxValues :
          GetOk(r, startDate, endDate, minPrice, maxPrice)

HandleGetFilteredQueryError(r) ==
    /\ Ready(r)
    /\ \E startDate \in StartValues, endDate \in EndValues,
          minPrice \in MinValues, maxPrice \in MaxValues, unavailable \in BOOLEAN :
          GetQueryError(r, startDate, endDate, minPrice, maxPrice, unavailable)

HandleGetFilteredIterError(r) ==
    /\ Ready(r)
    /\ \E startDate \in StartValues, endDate \in EndValues,
          minPrice \in MinValues, maxPrice \in MaxValues :
          GetIterError(r, startDate, endDate, minPrice, maxPrice)

(***************************************************************************)
(* Requests served one at a time.  The bounds limit what the client sends: *)
(* the number of POST requests, of entries in an archive and of rows in    *)
(* the entries of an archive.                                              *)
(***************************************************************************)
MorePosts == posts < MaxPosts

MoreEntries(r) == hist[r].nEntries < MaxEntries

MoreRows(r) == hist[r].nRows < MaxRows

\* the client does not repeat a GET: a GET changes nothing a second one could see
NotAfterGet(r) == h[r].method # "GET"

Next ==
    \E r \in Req :
        \/ MethodNotAllowed(r)
        \/ MorePosts /\ PostBadUpload(r)
        \/ MorePosts /\ PostBadArchive(r)
        \/ MorePosts /\ PostOpen(r)
        \/ MoreEntries(r) /\ SkipEntry(r)
        \/ MoreEntries(r) /\ OpenEntryFail(r)
        \/ MoreEntries(r) /\ TarError(r)
        \/ MoreEntries(r) /\ ProcessCSVBegin(r)
        \/ MoreEntries(r) /\ ProcessCSVNoHeaders(r)
        \/ MoreEntries(r) /\ ProcessCSVColumnsNotFound(r)
        \/ MoreRows(r) /\ ProcessRow(r)
        \/ RowsEOF(r)
        \/ ArchiveEnd(r)
        \/ NotAfterGet(r) /\ HandleGet(r)
        \/ NotAfterGet(r) /\ HandleGetQueryError(r)
        \/ NotAfterGet(r) /\ HandleGetIterError(r)

Spec == Init /\ [][Next]_vars

(***************************************************************************)
(* The export specification: a client that uploads well-formed archives of *)
(* valid rows and then queries them with every combination of parameters.  *)
(***************************************************************************)
ExportRows ==
    {<<<<"a", "p", "p", "l", "e">>, <<"f", "r", "u", "i", "t">>, <<"1", "0", "0">>>>,
     <<<<"b", "r", "e", "a", "d">>, <<"b", "a", "k", "e", "r", "y">>, <<"5", "0">>>>,
     <<<<"1">>, <<"a", "p", "p", "l", "e">>, <<"f", "r", "u", "i", "t">>, <<"1", "0", "0">>, <<"2", "0", "2", "4", "-", "0", "1", "-", "0", "2">>>>,
     <<<<"4">>, <<"b", "r", "e", "a", "d">>, <<"b", "a", "k", "e", "r", "y">>, <<"5", "0">>, <<"2", "0", "2", "3", "-", "1", "2", "-", "3", "1">>>>,
     <<<<"5">>, <<"b", "r", "e", "a", "d">>, <<"b", "a", "k", "e", "r", "y">>, <<"5", "0">>, <<>>>>}

ProcessExportRow(r) == ProcessRowOf(r, ExportRows, {<<>>})

NextGet ==
    \E r \in Req :
        \/ posts < MaxPostsGet /\ PostOpen(r)
        \/ MoreEntries(r) /\ ProcessCSVBegin(r)
        \/ hist[r].nRows < MaxRowsGet /\ ProcessExportRow(r)
        \/ RowsEOF(r)
        \/ ArchiveEnd(r)
        \/ NotAfterGet(r) /\ HandleGetFiltered(r)
        \/ NotAfterGet(r) /\ HandleGetFilteredQueryError(r)
        \/ NotAfterGet(r) /\ HandleGetFilteredIterError(r)
        \/ MethodNotAllowed(r)

SpecGet == Init /\ [][NextGet]_vars

(***************************************************************************)
(* The archive specification: one POST of an archive of several entries,   *)
(* read entry by entry to its end or to the first error.                   *)
(***************************************************************************)
ArchiveRows ==
    {<<<<"a", "p", "p", "l", "e">>, <<"f", "r", "u", "i", "t">>, <<"1", "0", "0">>>>,
     <<<<"b", "r", "e", "a", "d">>, <<"b", "a", "k", "e", "r", "y">>, <<"5", "0">>>>}

ProcessArchiveRow(r) == ProcessRowOf(r, ArchiveRows, {<<>>})

FirstPost == posts = 0

MoreArchiveEntries(r) == hist[r].nEntries < MaxEntriesArchive

MoreArchiveRows(r) == hist[r].nRows < MaxRowsArchive

NextArchive ==
    \E r \in Req :
        \/ FirstPost /\ PostBadArchive(r)
        \/ FirstPost /\ PostOpen(r)
        \/ MoreArchiveEntries(r) /\ SkipEntry(r)
        \/ MoreArchiveEntries(r) /\ OpenEntryFail(r)
        \/ MoreArchiveEntries(r) /\ TarError(r)
        \/ MoreArchiveEntries(r) /\ ProcessCSVBegin(r)
        \/ MoreArchiveEntries(r) /\ ProcessCSVNoHeaders(r)
        \/ MoreArchiveEntries(r) /\ ProcessCSVColumnsNotFound(r)
        \/ MoreArchiveRows(r) /\ ProcessArchiveRow(r)
        \/ RowsEOF(r)
        \/ ArchiveEnd(r)

SpecArchive == Init /\ [][NextArchive]_vars

(***************************************************************************)
(* Program start: main ensures that table prices exists before it serves   *)
(* requests.  The database outlives the process, so that a start finds the *)
(* table as an earlier run, of this or of another variant, left it.  A row *)
(* is modelled with all its fields whatever columns the table has.         *)
(***************************************************************************)
NoTable == [exists |-> FALSE, columns |-> {}]

\* the tables a start can find
Schemas == {NoTable} \cup {[exists |-> TRUE, columns |-> c] : c \in SUBSET PricesColumns}

\* a schema-ensure that drops the table and creates it anew
EnsureSchemaRecreate(db) == [schema |-> PricesSchema, rows |-> <<>>]

\* CREATE TABLE IF NOT EXISTS prices (main.go 624-635) on the database db
EnsureSchema(db) ==
    IF db.schema.exists THEN db ELSE [schema |-> PricesSchema, rows |-> <<>>]

\* the columns checkAndCreateTable looks for (part_002 98)
CheckedColumns == {"name", "category", "price", "create_date"}

\* checkAndCreateTable (part_002 64-138): existsErr is a failure of the query
\* for the table, failing the columns whose query or ALTER TABLE fails
CheckAndCreateTable(db, existsErr, failing) ==
    LET exists == IF existsErr THEN FALSE ELSE db.schema.exists
    IN  IF ~exists
        THEN IF db.schema.exists
             THEN db
             ELSE [schema |-> PricesSchema, rows |-> <<>>]
        ELSE [schema |-> [exists |-> TRUE,
                          columns |-> db.schema.columns \cup (CheckedColumns \ failing)],
              rows |-> db.rows]

Database == [schema |-> schema, rows |-> store]

\* the process starts with no handler running: its handlers start afresh
Started(db) ==
    /\ \A r \in Slots : Ready(r)
    /\ schema' = db.schema
    /\ store' = db.rows
    /\ h' = [r \in Slots |-> FreshLocals]
    /\ resp' = [r \in Slots |-> NoResponse]
    /\ hist' = [r \in Slots |-> FreshHist]
    /\ UNCHANGED <<nextId, posts>>

\* main of main.go
Startup == Started(EnsureSchema(Database))

\* main of the variant part_002
StartupChecked ==
    \E existsErr \in BOOLEAN, failing \in SUBSET CheckedColumns :
        Started(CheckAndCreateTable(Database, existsErr, failing))

\* the INSERT of lines 896-904 needs the table and its columns
InsertColumns == {"name", "category", "price"}

SchemaErrors ==
    IF schema.exists /\ InsertColumns \subseteq schema.columns
    THEN {<<>>}
    ELSE {<<"p", "q", ":", " ", "c", "o", "l", "u", "m", "n", " ", "d", "o", "e", "s", " ", "n", "o", "t", " ", "e", "x", "i", "s", "t">>}

ProcessSchemaRow(r) == ProcessRowOf(r, ArchiveRows, SchemaErrors)

InitSchema ==
    /\ schema \in Schemas
    /\ store = <<>>
    /\ nextId = 1
    /\ posts = 0
    /\ h = [r \in Slots |-> FreshLocals]
    /\ resp = [r \in Slots |-> NoResponse]
    /\ hist = [r \in Slots |-> FreshHist]

NextSchema ==
    \/ Startup
    \/ StartupChecked
    \/ \E r \in Req :
          \/ posts < MaxPostsSchema /\ PostOpen(r)
          \/ MoreEntries(r) /\ ProcessCSVBeginOf(r, {hNameCategoryPrice})
          \/ hist[r].nRows < MaxRowsSchema /\ ProcessSchemaRow(r)
          \/ RowsEOF(r)
          \/ ArchiveEnd(r)

SpecSchema == InitSchema /\ [][NextSchema]_vars

(***************************************************************************)
(* The concurrent specification: every slot serves one POST, and the steps *)
(* of the handlers interleave; a step is one statement on the store, which *)
(* the store runs atomically.  The locals of a handler are its own.        *)
(***************************************************************************)
ProcessConcurrentRow(r) == ProcessRowOf(r, ArchiveRows, {<<>>})

\* the slot has served no request yet
Unused(r) == h[r].pc = "idle"

NextConcurrent ==
    \E r \in Slots :
        \/ posts < MaxPostsConcurrent /\ Unused(r) /\ PostOpen(r)
        \/ MoreEntries(r) /\ ProcessCSVBeginOf(r, {hNameCategoryPrice})
        \/ hist[r].nRows < MaxRowsConcurrent /\ ProcessConcurrentRow(r)
        \/ RowsEOF(r)
        \/ ArchiveEnd(r)

SpecConcurrent == Init /\ [][NextConcurrent]_vars

(***************************************************************************)
(* The column specification: one POST of an archive whose entry starts     *)
(* with a first row that names all, some or none of the fields.            *)
(***************************************************************************)
hNameCategoryCost == <<<<"n", "a", "m", "e">>, <<"c", "a", "t", "e", "g", "o", "r", "y">>, <<"c", "o", "s", "t">>>>
hTitleCategoryPrice == <<<<"t", "i", "t", "l", "e">>, <<"c", "a", "t", "e", "g", "o", "r", "y">>, <<"p", "r", "i", "c", "e">>>>
hIdTitleCategoryPrice == <<<<"i", "d">>, <<"t", "i", "t", "l", "e">>, <<"c", "a", "t", "e", "g", "o", "r", "y">>, <<"p", "r", "i", "c", "e">>>>
hIdNameTypeCost == <<<<"i", "d">>, <<"n", "a", "m", "e">>, <<"t", "y", "p", "e">>, <<"c", "o", "s", "t">>>>
hBlankTitleCategoryPrice == <<<<>>, <<"t", "i", "t", "l", "e">>, <<"c", "a", "t", "e", "g", "o", "r", "y">>, <<"p", "r", "i", "c", "e">>>>
hCodePriceNoteStock == <<<<"c", "o", "d", "e">>, <<"p", "r", "i", "c", "e">>, <<"n", "o", "t", "e">>, <<"s", "t", "o", "c", "k">>>>
hPriceNameCategory == <<<<"P", "r", "i", "c", "e">>, <<" ", "N", "a", "m", "e", " ">>, <<"C", "A", "T", "E", "G", "O", "R", "Y">>>>
hProductTypeCostDate == <<<<"p", "r", "o", "d", "u", "c", "t">>, <<"t", "y", "p", "e">>, <<"c", "o", "s", "t">>, <<"d", "a", "t", "e">>>>

ColumnHeaderRows ==
    HeaderRows \cup {hNameCategoryCost, hTitleCategoryPrice, hIdTitleCategoryPrice, hIdNameTypeCost,
                     hBlankTitleCategoryPrice, hCodePriceNoteStock, hPriceNameCategory,
                     hProductTypeCostDate}

ColumnRows ==
    {<<<<"a", "p", "p", "l", "e">>, <<"f", "r", "u", "i", "t">>, <<"1", "0", "0">>>>,
     <<<<"1">>, <<"a", "p", "p", "l", "e">>, <<"f", "r", "u", "i", "t">>, <<"1", "0", "0">>>>,
     <<<<"a", "p", "p", "l", "e">>, <<"f", "r", "u", "i", "t">>, <<"1", "0", "0">>, <<"2", "0", "2", "4", "-", "0", "1", "-", "0", "2">>>>}

ProcessColumnRow(r) == ProcessRowOf(r, ColumnRows, {<<>>})

NextColumns ==
    \E r \in Req :
        \/ FirstPost /\ PostOpen(r)
        \/ MoreEntries(r) /\ ProcessCSVBeginOf(r, ColumnHeaderRows)
        \/ MoreEntries(r) /\ ProcessCSVColumnsNotFoundOf(r, ColumnHeaderRows)
        \/ hist[r].nRows < MaxRowsColumns /\ ProcessColumnRow(r)
        \/ RowsEOF(r)
        \/ ArchiveEnd(r)

SpecColumns == Init /\ [][NextColumns]_vars

(***************************************************************************)
(* The scope specification: a client that POSTs archives of one or two     *)
(* tabular entries, one archive after the other, with the same records     *)
(* turning up in several entries and in several archives.  seenItems is    *)
(* made by handlePost (line 684) and handed to every call of processCSV.   *)
(***************************************************************************)
ProcessScopeRow(r) == ProcessRowOf(r, ArchiveRows, {<<>>})

NextScope ==
    \E r \in Req :
        \/ posts < MaxPostsScope /\ PostOpen(r)
        \/ hist[r].nEntries < MaxEntriesScope /\ ProcessCSVBeginOf(r, {hNameCategoryPrice})
        \/ hist[r].nRows < MaxRowsScope /\ ProcessScopeRow(r)
        \/ RowsEOF(r)
        \/ ArchiveEnd(r)

SpecScope == Init /\ [][NextScope]_vars

(***************************************************************************)
(* The key specification: one POST of an entry whose name and category     *)
(* cells may hold the character that itemKey puts between the fields.      *)
(***************************************************************************)
KeyRows ==
    ArchiveRows \cup
    {<<<<"a", "|", "b">>, <<"c">>, <<"1", "0">>>>,
     <<<<"a">>, <<"b", "|", "c">>, <<"1", "0">>>>}

ProcessKeyRow(r) == ProcessRowOf(r, KeyRows, {<<>>})

NextKeys ==
    \E r \in Req :
        \/ FirstPost /\ PostOpen(r)
        \/ MoreEntries(r) /\ ProcessCSVBeginOf(r, {hNameCategoryPrice})
        \/ hist[r].nRows < MaxRowsKeys /\ ProcessKeyRow(r)
        \/ RowsEOF(r)
        \/ ArchiveEnd(r)

SpecKeys == Init /\ [][NextKeys]_vars

(***************************************************************************)
(* The read specification: one POST of an archive whose tabular entries    *)
(* may be damaged, so that reading one fails from some row on.  The        *)
(* handler runs in a goroutine of its own that the scheduler keeps         *)
(* running: a handler that can take a step takes one.                      *)
(***************************************************************************)
ProcessReadRow(r) == ProcessRowOf(r, ArchiveRows, {<<>>})

\* the steps of the handler that serves request r
HandlerStep(r) ==
    \/ hist[r].nEntries < MaxEntriesRead /\ ProcessCSVBeginOf(r, {hNameCategoryPrice})
    \/ hist[r].nEntries < MaxEntriesRead /\ ProcessCSVNoHeaders(r)
    \/ hist[r].nRows < MaxRowsRead /\ Readable(r) /\ ProcessReadRow(r)
    \/ Readable(r) /\ RowsEOF(r)
    \/ RowReadError(r)
    \/ ArchiveEnd(r)

NextRead ==
    \E r \in Req :
        \/ FirstPost /\ PostOpen(r)
        \/ HandlerStep(r)

SpecRead == Init /\ [][NextRead]_vars /\ \A r \in Req : WF_vars(HandlerStep(r))

(***************************************************************************)
(* Notions the properties are stated in.                                   *)
(***************************************************************************)
\* the records of a sequence of stored rows
StoreRecords(rows) == [i \in 1..Len(rows) |-> RowRecord(rows[i])]

\* the requests handled by handlePost
IsPost(r) == h[r].method = "POST"

\* the valid rows of request r with the given outcome, as a set of positions
RowsWith(r, outcomes) ==
    {i \in 1..Len(hist[r].valid) : hist[r].valid[i].outcome \in outcomes}

\* the records request r inserted, in the order of their rows
RECURSIVE InsertedOf(_)
InsertedOf(valid) ==
    IF valid = <<>> THEN <<>>
    ELSE IF Head(valid).outcome = "ok"
         THEN <<Head(valid).rec>> \o InsertedOf(Tail(valid))
         ELSE InsertedOf(Tail(valid))

\* the rows that request r has added to the table
AddedRows(r) == SubSeq(store, Len(hist[r].store0) + 1, Len(store))

\* rows read by request r that were skipped
Skipped(r) == hist[r].nRows - Len(hist[r].valid)

\* an insert of request r failed with an error that is not a uniqueness conflict
InsertFailed(r) == RowsWith(r, {"error"}) # {}

\* sum of the prices of a sequence of stored rows
RECURSIVE PriceSum(_)
PriceSum(rows) == IF rows = <<>> THEN 0 ELSE Head(rows).price + PriceSum(Tail(rows))

recApple == [name |-> sApple, category |-> sFruit, price |-> 100, date |-> NoDate]
recBread == [name |-> sBread, category |-> sBakery, price |-> 50, date |-> NoDate]

(***************************************************************************)
(* C1.  As claimed: after a POST that returns statistics the table holds   *)
(* exactly the records inserted by that POST and no row left over from an  *)
(* earlier POST.                                                           *)
(***************************************************************************)
C1_StoreIsReplaced ==
    \A r \in Req :
        PostSucceeded(r) => StoreRecords(store) = InsertedOf(hist[r].valid)

\* C1, amended.  A POST does not reset the table: during and after a POST the
\* table holds every row it held when the POST arrived, unchanged and in the
\* same order, followed by the records inserted by that POST.
C1_StoreIsExtended ==
    \A r \in Req :
        (IsPost(r) /\ h[r].pc # "idle") =>
            /\ Len(store) >= Len(hist[r].store0)
            /\ SubSeq(store, 1, Len(hist[r].store0)) = hist[r].store0
            /\ StoreRecords(AddedRows(r)) = InsertedOf(hist[r].valid)

C1_Witness ==
    \E r \in Req :
        /\ PostSucceeded(r)
        /\ hist[r].store0 # <<>>
        /\ InsertedOf(hist[r].valid) # <<>>

(***************************************************************************)
(* C2.  Within one POST, a valid row whose (name, category, price, date)   *)
(* equals that of an earlier valid row is never sent to the store, and the *)
(* duplicates counter counts every such row (and every uniqueness conflict *)
(* of the store).  The scenario: header name,category,price and rows       *)
(* apple,fruit,100 / bread,bakery,50 / apple,fruit,100, all inserts        *)
(* succeeding, is answered 3, 1, 2, 2, 150.                                *)
(***************************************************************************)
C2_Scenario(r) ==
    /\ PostSucceeded(r)
    /\ h[r].headers = hNameCategoryPrice
    /\ hist[r].nRows = 3
    /\ Len(hist[r].valid) = 3
    /\ hist[r].valid[1] = [rec |-> recApple, outcome |-> "ok"]
    /\ hist[r].valid[2] = [rec |-> recBread, outcome |-> "ok"]
    /\ hist[r].valid[3].rec = recApple

C2_FirstOccurrenceOnly ==
    \A r \in Req :
        IsPost(r) =>
            /\ \A i, j \in 1..Len(hist[r].valid) :
                  (i < j /\ hist[r].valid[i].rec = hist[r].valid[j].rec)
                      => hist[r].valid[j].outcome = "dup"
            /\ h[r].st.dups = Cardinality(RowsWith(r, {"dup", "conflict"}))
            /\ C2_Scenario(r) =>
                  resp[r].stats = [total_count |-> 3, duplicates_count |-> 1, total_items |-> 2,
                                   total_categories |-> 2, total_price |-> 150]

C2_Witness == \E r \in Req : C2_Scenario(r)

(***************************************************************************)
(* C3.  rows_seen counts every row read, whatever becomes of it, and       *)
(* rows_inserted counts the successful inserts only; rows_inserted +       *)
(* duplicates <= rows_seen in every state, and as long as no insert has    *)
(* failed, rows_seen - rows_inserted - duplicates is the number of skipped *)
(* rows.                                                                   *)
(***************************************************************************)
C3_CountersOfRows ==
    \A r \in Req :
        IsPost(r) =>
            /\ h[r].st.rows = hist[r].nRows
            /\ h[r].st.items = Cardinality(RowsWith(r, {"ok"}))
            /\ h[r].st.items = Len(store) - Len(hist[r].store0)
            /\ h[r].st.items + h[r].st.dups <= h[r].st.rows
            /\ ~InsertFailed(r) => h[r].st.rows - h[r].st.items - h[r].st.dups = Skipped(r)

C3_Witness ==
    \E r \in Req :
        /\ IsPost(r)
        /\ Skipped(r) >= 1
        /\ h[r].st.dups >= 1
        /\ h[r].st.items >= 1

(***************************************************************************)
(* C4.  As claimed: a POST of an archive with one tabular entry of N data  *)
(* rows without duplicate records answers rows_seen = N, rows_inserted <=  *)
(* N, duplicates = N - rows_inserted, distinct_categories = the number of  *)
(* categories among the inserted rows and price_sum = the sum of their     *)
(* prices.                                                                 *)
(***************************************************************************)
\* the entry of request r was the only tabular one and no two of its rows decode
\* to the same record
OneEntryNoDuplicates(r) ==
    /\ PostSucceeded(r)
    /\ hist[r].nCSV = 1
    /\ \A i, j \in 1..Len(hist[r].valid) :
          hist[r].valid[i].rec = hist[r].valid[j].rec => i = j

CategoriesOf(rows) == {rows[i].category : i \in 1..Len(rows)}

C4_DuplicatesAreTheRest ==
    \A r \in Req :
        OneEntryNoDuplicates(r) =>
            /\ resp[r].stats.total_count = hist[r].nRows
            /\ resp[r].stats.total_items <= hist[r].nRows
            /\ resp[r].stats.duplicates_count = hist[r].nRows - resp[r].stats.total_items
            /\ resp[r].stats.total_categories = Cardinality(CategoriesOf(AddedRows(r)))
            /\ resp[r].stats.total_price = PriceSum(AddedRows(r))

\* C4, amended.  For such a POST rows_seen = N, rows_inserted <= N, duplicates =
\* N - rows_inserted - the number of rows skipped as malformed or invalid (a
\* skipped row is counted in rows_seen only), distinct_categories is the number
\* of categories among the inserted rows and price_sum the sum of their prices.
C4_DuplicatesAreTheRestButSkipped ==
    \A r \in Req :
        OneEntryNoDuplicates(r) =>
            /\ resp[r].stats.total_count = hist[r].nRows
            /\ resp[r].stats.total_items <= hist[r].nRows
            /\ resp[r].stats.total_items = Len(AddedRows(r))
            /\ resp[r].stats.duplicates_count =
                  hist[r].nRows - resp[r].stats.total_items - Skipped(r)
            /\ resp[r].stats.total_categories = Cardinality(CategoriesOf(AddedRows(r)))
            /\ resp[r].stats.total_price = PriceSum(AddedRows(r))

C4_Witness ==
    \E r \in Req :
        /\ OneEntryNoDuplicates(r)
        /\ Skipped(r) >= 1
        /\ RowsWith(r, {"conflict"}) # {}
        /\ Len(AddedRows(r)) >= 1

(***************************************************************************)
(* C5.  As claimed: a GET without filters that directly follows a POST     *)
(* answered with statistics returns exactly the unique valid records of    *)
(* that POST, in insertion order.                                          *)
(***************************************************************************)
\* the distinct records of the valid rows, in the order of their first occurrence
RECURSIVE UniqueOf(_, _)
UniqueOf(valid, found) ==
    IF valid = <<>> THEN <<>>
    ELSE IF Head(valid).rec \in found
         THEN UniqueOf(Tail(valid), found)
         ELSE <<Head(valid).rec>> \o UniqueOf(Tail(valid), found \cup {Head(valid).rec})

\* the text of a price, of a date and of a record in the exported table
PriceText(n) == Itoa(n)

DateText(d) ==
    IF d = NoDate THEN <<>>
    ELSE Pad(NatStr(d[1]), 4) \o <<"-">> \o Pad(NatStr(d[2]), 2) \o <<"-">> \o Pad(NatStr(d[3]), 2)

TableOf(recs) ==
    [i \in 1..Len(recs) |->
        <<recs[i].name, recs[i].category, PriceText(recs[i].price), DateText(recs[i].date)>>]

\* request r is a POST answered with statistics and its slot takes an unfiltered
\* GET that meets no store fault
RoundTripStep(r) ==
    /\ PostSucceeded(r)
    /\ h'[r].method = "GET"
    /\ hist'[r].filters = NoFilters
    /\ hist'[r].fault = "none"

C5_ExportIsThisPost ==
    [][\A r \in Req :
          RoundTripStep(r) => resp'[r].rows = TableOf(UniqueOf(hist[r].valid, {}))]_vars

\* C5, amended.  Such a GET returns, in id order, the rows the table held when
\* the POST arrived followed by the records that POST inserted: the unique valid
\* records of the POST the store accepted.
C5_ExportIsTableAfterPost ==
    [][\A r \in Req :
          RoundTripStep(r) =>
              /\ resp'[r].status = 200
              /\ resp'[r].rows =
                    TableOf(StoreRecords(hist[r].store0) \o InsertedOf(hist[r].valid))]_vars

C5_Witness ==
    \E r \in Req :
        /\ h[r].method = "GET"
        /\ hist[r].afterPost
        /\ hist[r].filters = NoFilters
        /\ hist[r].fault = "none"
        /\ resp[r].status = 200
        /\ Len(resp[r].rows) >= 2
        /\ resp[r].rows[1] # resp[r].rows[2]

(***************************************************************************)
(* C6.  As claimed: when no cell of the first row of an entry matches a    *)
(* header substring and the row is itself valid data, the row is counted   *)
(* in rows_seen and inserted.                                              *)
(***************************************************************************)
NoHeaderMatch(headers) == \A i \in 1..Len(headers) : HeaderField(headers[i]) = "none"

\* the row loop of request r runs on an entry whose first row is valid data
HeaderlessEntry(r) ==
    /\ IsPost(r)
    /\ h[r].pc = "rows"
    /\ NoHeaderMatch(h[r].headers)
    /\ DecodeRow(h[r].headers, h[r].cols).tag = "ok"

C6_FirstRowIsData ==
    \A r \in Req :
        HeaderlessEntry(r) => h[r].st.rows = hist[r].nRows + 1

\* C6, amended.  The first row of an entry is always consumed as the header row:
\* it only resolves the column indices, by name or by position, and is neither
\* counted in rows_seen nor inserted, even when no cell of it matches a header
\* substring and it is itself valid data; decoding begins at the second row.
C6_FirstRowIsHeader ==
    [][\A r \in Req :
          (h[r].pc = "entries" /\ h'[r].pc = "rows") =>
              /\ h'[r].st = h[r].st
              /\ h'[r].seenItems = h[r].seenItems
              /\ store' = store
              /\ h'[r].cols = ResolveColumns(h'[r].headers)]_vars

C6_Witness ==
    \E r \in Req :
        /\ HeaderlessEntry(r)
        /\ hist[r].nRows = 0
        /\ h[r].st.rows = 0
        /\ store = hist[r].store0

(***************************************************************************)
(* C7.  A GET returns exactly the stored rows that satisfy every supplied  *)
(* bound (date >= start, date <= end, price >= min, price <= max), in id   *)
(* order; an omitted bound imposes no constraint, so a GET without         *)
(* parameters returns every stored row.  A GET with min=60 over the rows   *)
(* apple,fruit,100 and bread,bakery,50 returns only the apple row.         *)
(***************************************************************************)
\* request r was a GET
IsGet(r) == h[r].method = "GET" /\ h[r].pc = "done"

Supplied(v) == v # <<>>

IsDateText(v) == ParseISO(v).ok

IsNumberText(v) == Atoi(v).ok

\* every supplied bound of the filters is a date or a number
BoundsParse(f) ==
    /\ Supplied(f.start) => IsDateText(f.start)
    /\ Supplied(f.end) => IsDateText(f.end)
    /\ Supplied(f.min) => IsNumberText(f.min)
    /\ Supplied(f.max) => IsNumberText(f.max)

\* the record satisfies the bounds: dates from start to end, prices from lo to hi
Satisfies(rec, f, lo, hi) ==
    /\ Supplied(f.start) => (rec.date # NoDate /\ DateLeq(ParseISO(f.start).date, rec.date))
    /\ Supplied(f.end) => (rec.date # NoDate /\ DateLeq(rec.date, ParseISO(f.end).date))
    /\ Supplied(f.min) => lo <= rec.price
    /\ Supplied(f.max) => rec.price <= hi

RECURSIVE Satisfying(_, _, _, _)
Satisfying(recs, f, lo, hi) ==
    IF recs = <<>> THEN <<>>
    ELSE IF Satisfies(Head(recs), f, lo, hi)
         THEN <<Head(recs)>> \o Satisfying(Tail(recs), f, lo, hi)
         ELSE Satisfying(Tail(recs), f, lo, hi)

OnlyMin60 == [NoFilters EXCEPT !.min = <<"6", "0">>]

C7_Scenario(r) ==
    /\ IsGet(r)
    /\ hist[r].fault = "none"
    /\ hist[r].filters = OnlyMin60
    /\ StoreRecords(store) = <<recApple, recBread>>

C7_RowsWithinBounds ==
    \A r \in Req :
        (IsGet(r) /\ hist[r].fault = "none" /\ BoundsParse(hist[r].filters)) =>
            /\ resp[r].status = 200
            /\ resp[r].rows =
                  TableOf(Satisfying(StoreRecords(store), hist[r].filters,
                                     Atoi(hist[r].filters.min).val,
                                     Atoi(hist[r].filters.max).val))
            /\ hist[r].filters = NoFilters => Len(resp[r].rows) = Len(store)
            /\ C7_Scenario(r) =>
                  resp[r].rows = <<<<sApple, sFruit, <<"1", "0", "0">>, <<>>>>>>

C7_Witness == \E r \in Req : C7_Scenario(r)

(***************************************************************************)
(* C8.  As claimed: a GET in which a supplied bound cannot be parsed as a  *)
(* date or a number is answered with a 400-class status and returns no     *)
(* rows.                                                                   *)
(***************************************************************************)
C8_BadBoundIsRefused ==
    \A r \in Req :
        (IsGet(r) /\ ~BoundsParse(hist[r].filters)) =>
            /\ resp[r].status \in 400..499
            /\ resp[r].rows = <<>>

\* C8, amended.  No GET is answered with a 400-class status.  A min that is not
\* a number is replaced by 0 and a max that is not a number by 1000000, and the
\* GET is answered 200 with the rows that satisfy the bounds so replaced.  A
\* start or end is passed to the store as received: when it is not a date the
\* store rejects the query and the GET is answered 500 without rows.
SubstitutedMin(f) == IF IsNumberText(f.min) THEN Atoi(f.min).val ELSE 0

SubstitutedMax(f) == IF IsNumberText(f.max) THEN Atoi(f.max).val ELSE 1000000

DatesParse(f) ==
    /\ Supplied(f.start) => IsDateText(f.start)
    /\ Supplied(f.end) => IsDateText(f.end)

C8_BadBoundIsSubstituted ==
    \A r \in Req :
        IsGet(r) =>
            /\ resp[r].status \notin 400..499
            /\ ~DatesParse(hist[r].filters) => (resp[r].status = 500 /\ resp[r].rows = <<>>)
            /\ (DatesParse(hist[r].filters) /\ hist[r].fault = "none") =>
                  /\ resp[r].status = 200
                  /\ resp[r].rows =
                        TableOf(Satisfying(StoreRecords(store), hist[r].filters,
                                           SubstitutedMin(hist[r].filters),
                                           SubstitutedMax(hist[r].filters)))

C8_Witness ==
    \E r \in Req :
        /\ IsGet(r)
        /\ Supplied(hist[r].filters.max)
        /\ ~IsNumberText(hist[r].filters.max)
        /\ resp[r].status = 200
        /\ resp[r].rows # <<>>

(***************************************************************************)
(* C9.  As claimed: when an insert fails with anything but a uniqueness    *)
(* conflict the POST aborts at that row and is answered with a 500-class   *)
(* status, without statistics, and the rows inserted before stay in the    *)
(* table.                                                                  *)
(***************************************************************************)
C9_InsertFailureIsServerError ==
    \A r \in Req :
        (IsPost(r) /\ InsertFailed(r)) =>
            /\ h[r].pc = "done"
            /\ resp[r].status \in 500..599
            /\ resp[r].stats = NoStats
            /\ StoreRecords(AddedRows(r)) = InsertedOf(hist[r].valid)

(***************************************************************************)
(* C10.  When the insert of a row fails with a uniqueness conflict, the    *)
(* row is counted as a duplicate: duplicates grows by one, rows_inserted,  *)
(* price_sum, distinct_categories and the table stay as they are, nothing  *)
(* is answered yet and the row loop goes on with the next row.             *)
(***************************************************************************)
\* the step in which request r is refused an insert as a uniqueness conflict
ConflictStep(r) ==
    /\ Len(hist'[r].valid) = Len(hist[r].valid) + 1
    /\ hist'[r].valid[Len(hist'[r].valid)].outcome = "conflict"

C10_ConflictIsDuplicate ==
    [][\A r \in Req :
          ConflictStep(r) =>
              /\ h'[r].st.dups = h[r].st.dups + 1
              /\ h'[r].st.items = h[r].st.items
              /\ h'[r].st.price = h[r].st.price
              /\ h'[r].st.categories = h[r].st.categories
              /\ store' = store
              /\ resp' = resp
              /\ h'[r].pc = "rows"]_vars

C10_Witness ==
    \E r \in Req :
        /\ PostSucceeded(r)
        /\ RowsWith(r, {"conflict"}) # {}
        /\ resp[r].stats.duplicates_count >= 1

(***************************************************************************)
(* C11.  A POST whose bytes are not a valid container of the declared kind *)
(* is answered 400 without statistics, and the table holds no row the      *)
(* request inserted, also when the failure is met after earlier entries of *)
(* the archive were read.                                                  *)
(***************************************************************************)
\* request r was a POST that ended on an invalid container
InvalidContainer(r) ==
    /\ IsPost(r)
    /\ h[r].pc = "done"
    /\ resp[r].msg \in {"invalid zip", "invalid tar"}

C11_InvalidArchiveInsertsNothing ==
    \A r \in Req :
        InvalidContainer(r) =>
            /\ resp[r].status = 400
            /\ resp[r].stats = NoStats
            /\ store = hist[r].store0

(***************************************************************************)
(* C12.  A POST of a readable archive without an entry whose name ends in  *)
(* .csv (in any case) is answered 400 "no csv files found" and inserts     *)
(* nothing; an archive with such an entry is never answered so.            *)
(***************************************************************************)
\* request r was a POST that read its archive to the end
ArchiveRead(r) ==
    /\ IsPost(r)
    /\ h[r].pc = "done"
    /\ resp[r].msg \in {"", "no csv files found"}
    /\ resp[r].status # 0

NoTabularData(r) == resp[r].status = 400 /\ resp[r].msg = "no csv files found"

C12_NoTabularDataIffNoEntry ==
    \A r \in Req :
        ArchiveRead(r) =>
            /\ hist[r].nCSV = 0 => (NoTabularData(r) /\ store = hist[r].store0)
            /\ hist[r].nCSV > 0 => ~NoTabularData(r)

(***************************************************************************)
(* C13.  A POST of an archive whose tabular entries hold a header row and  *)
(* no data row succeeds with rows_seen, duplicates, rows_inserted,         *)
(* distinct_categories and price_sum all 0, and inserts no row.            *)
(***************************************************************************)
\* request r read its archive to the end, processed an entry and met no data row
HeaderOnly(r) ==
    /\ ArchiveRead(r)
    /\ h[r].processedAnyCSV
    /\ hist[r].nRows = 0

C13_HeaderOnlyEntry ==
    \A r \in Req :
        HeaderOnly(r) =>
            /\ resp[r].status = 200
            /\ resp[r].stats = [total_count |-> 0, duplicates_count |-> 0, total_items |-> 0,
                                total_categories |-> 0, total_price |-> 0]
            /\ store = hist[r].store0

C13_Witness ==
    \E r \in Req :
        /\ HeaderOnly(r)
        /\ hist[r].nCSV = 1
        /\ h[r].headers = hNameCategoryPrice

(***************************************************************************)
(* C14.  A GET during which the store fails, on issuing the query or while *)
(* the result rows are iterated, is answered 500 and never with a success  *)
(* response that carries an empty or truncated archive.                    *)
(***************************************************************************)
\* the store failed during the GET of request r
StoreFailedOnGet(r) == IsGet(r) /\ hist[r].fault \in {"query", "iter"}

C14_StoreFailureIsServerError ==
    \A r \in Req :
        StoreFailedOnGet(r) => (resp[r].status = 500 /\ resp[r].rows = <<>>)

(***************************************************************************)
(* C15.  Schema-ensure is idempotent: run on a table that already has the  *)
(* correct schema it changes neither the schema nor any stored row, so     *)
(* that running it twice leaves the store as running it once.              *)
(***************************************************************************)
\* the step is a program start
StartStep == \A r \in Slots : h'[r].pc = "idle"

C15_SchemaEnsureIdempotent ==
    [][(StartStep /\ schema = PricesSchema) =>
          /\ schema' = schema
          /\ store' = store
          /\ nextId' = nextId
          /\ EnsureSchema([schema |-> schema', rows |-> store']) =
                [schema |-> schema', rows |-> store']]_vars

C15_Witness ==
    /\ \A r \in Slots : h[r].pc = "idle"
    /\ schema = PricesSchema
    /\ Len(store) >= 2
    /\ posts >= 1

(***************************************************************************)
(* C16.  A request whose method is neither GET nor POST is answered 405,   *)
(* and neither such a request nor a GET, with whatever filters and whether *)
(* it succeeds or fails, changes the table.                                *)
(***************************************************************************)
\* the step serves a GET or a request of another method in slot r
ReadOnlyStep(r) == h'[r].pc = "done" /\ h'[r].method \in {"GET", "OTHER"}

C16_OtherMethodsAndGetChangeNothing ==
    [][\A r \in Req :
          ReadOnlyStep(r) =>
              /\ store' = store
              /\ nextId' = nextId
              /\ schema' = schema
              /\ h'[r].method = "OTHER" => resp'[r] = ErrorResponse(405, "Method not allowed")
              /\ resp'[r].status \in {200, 405, 500}]_vars

C16_Witness ==
    \E r \in Req :
        /\ h[r].pc = "done"
        /\ h[r].method = "OTHER"
        /\ resp[r].status = 405
        /\ Len(store) >= 1

(***************************************************************************)
(* C17.  As claimed: with two POST requests running concurrently, once     *)
(* both have completed the table holds exactly the records of one of them, *)
(* the one whose reset ran last, and no row of the other.                  *)
(***************************************************************************)
InsertedBy(r) == InsertedOf(hist[r].valid)

\* the two requests ran concurrently: each inserted a row, and neither had
\* inserted all its rows when the other arrived
Concurrent ==
    /\ \A r \in Slots : InsertedBy(r) # <<>>
    /\ Len(hist[2].store0) < Len(hist[1].store0) + Len(InsertedBy(1))
    /\ Len(hist[1].store0) < Len(hist[2].store0) + Len(InsertedBy(2))

BothCompleted == \A r \in Slots : PostSucceeded(r)

C17_LastWriterWins ==
    (BothCompleted /\ Concurrent) =>
        \E r \in Slots : StoreRecords(store) = InsertedBy(r)

\* C17, amended.  With two POST requests running concurrently neither resets
\* the table and their inserts may interleave: at every moment, and once both
\* have completed, the table holds the records inserted by both requests, those
\* of each request in the order of its rows, under ids that grow with the order
\* of the inserts.
RECURSIVE IsMerge(_, _, _)
IsMerge(s, a, b) ==
    IF s = <<>> THEN a = <<>> /\ b = <<>>
    ELSE \/ a # <<>> /\ Head(a) = Head(s) /\ IsMerge(Tail(s), Tail(a), b)
         \/ b # <<>> /\ Head(b) = Head(s) /\ IsMerge(Tail(s), a, Tail(b))

C17_BothWritersStay ==
    /\ IsMerge(StoreRecords(store), InsertedBy(1), InsertedBy(2))
    /\ \A i, j \in 1..Len(store) : i < j => store[i].id < store[j].id

C17_Witness ==
    /\ BothCompleted
    /\ Concurrent
    /\ Len(store) >= 3
    /\ StoreRecords(store) # InsertedBy(1) \o InsertedBy(2)
    /\ StoreRecords(store) # InsertedBy(2) \o InsertedBy(1)

(***************************************************************************)
(* C18.  When the first row names only some of name, category and price,   *)
(* every field it names keeps the index of the cell that names it, and     *)
(* every field it does not name, and only such a field, takes its index of *)
(* the positional convention: name 1, category 2, price 3 in a row of four *)
(* or more cells, name 0, category 1, price 2 in a row of three.           *)
(***************************************************************************)
RequiredFields == {"name", "category", "price"}

\* the cells of the first row that name the field, as 0-based indices
NamingCells(headers, field) ==
    {i \in 0..(Len(headers) - 1) : HeaderField(headers[i + 1]) = field}

\* the index resolved for the field
IndexOf(cols, field) ==
    CASE field = "name" -> cols.nameIdx
      [] field = "category" -> cols.categoryIdx
      [] field = "price" -> cols.priceIdx

\* the index of the field by the positional convention for rows of the width
PositionalIndex(field, width) ==
    LET shift == IF width >= 4 THEN 1 ELSE 0
    IN  IF width < 3 THEN -1
        ELSE CASE field = "name" -> shift
               [] field = "category" -> shift + 1
               [] field = "price" -> shift + 2

\* request r has read a first row that names some but not all of the fields
PartialMatch(r) ==
    /\ IsPost(r)
    /\ h[r].headers # <<>>
    /\ \E f \in RequiredFields : NamingCells(h[r].headers, f) # {}
    /\ \E f \in RequiredFields : NamingCells(h[r].headers, f) = {}

C18_FallbackPerField ==
    \A r \in Req :
        PartialMatch(r) =>
            \A f \in RequiredFields :
                IF NamingCells(h[r].headers, f) # {}
                THEN IndexOf(h[r].cols, f) \in NamingCells(h[r].headers, f)
                ELSE IndexOf(h[r].cols, f) = PositionalIndex(f, Len(h[r].headers))

(***************************************************************************)
(* C19.  An entry whose first row has exactly 3 cells and names no field   *)
(* is decoded with name in cell 0, category in cell 1 and price in cell 2, *)
(* and is not rejected.                                                    *)
(***************************************************************************)
\* request r has read a first row of three cells that names no field
ThreeCellsUnnamed(r) ==
    /\ IsPost(r)
    /\ Len(h[r].headers) = 3
    /\ NoHeaderMatch(h[r].headers)

C19_WidthThreeConvention ==
    \A r \in Req :
        ThreeCellsUnnamed(r) =>
            /\ h[r].cols.nameIdx = 0
            /\ h[r].cols.categoryIdx = 1
            /\ h[r].cols.priceIdx = 2
            /\ resp[r].status # 400

(***************************************************************************)
(* C20.  Whenever the columns of an entry are resolved, the indices of     *)
(* name, category and price are pairwise distinct: no column is read as    *)
(* two fields.                                                             *)
(***************************************************************************)
C20_DistinctColumns ==
    \A r \in Req :
        (IsPost(r) /\ h[r].headers # <<>> /\ ColumnsFound(h[r].cols)) =>
            /\ h[r].cols.nameIdx # h[r].cols.categoryIdx
            /\ h[r].cols.nameIdx # h[r].cols.priceIdx
            /\ h[r].cols.categoryIdx # h[r].cols.priceIdx

(***************************************************************************)
(* C21.  Row-level problems never surface.                                 *)
(***************************************************************************)
\* the cell of the row in the 0-based column idx, untrimmed
CellAt(row, idx) == row[idx + 1]

\* the row is too short to reach the name, category or price column
TooFewCells(row, cols) ==
    \E idx \in {cols.nameIdx, cols.categoryIdx, cols.priceIdx} : idx >= Len(row)

\* the name, category or price cell is empty once trimmed
EmptyRequiredCell(row, cols) ==
    /\ ~TooFewCells(row, cols)
    /\ \E idx \in {cols.nameIdx, cols.categoryIdx, cols.priceIdx} :
          TrimSpace(CellAt(row, idx)) = <<>>

\* the price cell is not a number
PriceNotNumber(row, cols) ==
    /\ ~TooFewCells(row, cols)
    /\ ~IsNumberText(TrimSpace(CellAt(row, cols.priceIdx)))

\* the row has a date cell that is not empty and matches no accepted format
DateMatchesNoFormat(row, cols) ==
    /\ ~TooFewCells(row, cols)
    /\ cols.dateIdx # -1 /\ cols.dateIdx < Len(row)
    /\ LET text == TrimSpace(CellAt(row, cols.dateIdx))
       IN  text # <<>> /\ ~ParseISO(text).ok /\ ~ParseDMY(text).ok

HasRowProblem(row, cols) ==
    \/ TooFewCells(row, cols)
    \/ EmptyRequiredCell(row, cols)
    \/ PriceNotNumber(row, cols)
    \/ DateMatchesNoFormat(row, cols)

\* request r reads a row that yields no record
SkipStep(r) ==
    /\ hist'[r].nRows = hist[r].nRows + 1
    /\ hist'[r].valid = hist[r].valid

HighestIndex(cols) ==
    CHOOSE idx \in {cols.nameIdx, cols.categoryIdx, cols.priceIdx, cols.dateIdx} :
        \A other \in {cols.nameIdx, cols.categoryIdx, cols.priceIdx, cols.dateIdx} : other <= idx

\* the rows an entry of the uploads may hold
UploadRows == DataRows \cup ColumnRows

\* the row reaches the name, category and price columns but not the resolved
\* date column
ShortOfDateOnly(row, cols) ==
    /\ ~TooFewCells(row, cols)
    /\ cols.dateIdx # -1 /\ cols.dateIdx >= Len(row)

\* C22, as claimed.  A row with too few cells to reach the highest resolved
\* column index, the date column included, is skipped as malformed-width.
C22_ShortOfHighestIsSkipped ==
    \A r \in Req :
        (IsPost(r) /\ h[r].pc = "rows") =>
           \A row \in UploadRows :
              Len(row) <= HighestIndex(h[r].cols) =>
                 DecodeRow(row, h[r].cols).tag = "malformed-width"

\* C22, amended.  A row is skipped as malformed-width exactly when it has too
\* few cells to reach the resolved name, category or price column.  A row that
\* reaches these three but not the resolved date column is decoded like a row
\* with an empty date cell: if its three cells are in order it yields a record
\* without date, which is inserted or counted as a duplicate.
C22_ShortOfRequiredIsSkipped ==
    \A r \in Req :
        (IsPost(r) /\ h[r].pc = "rows") =>
           \A row \in UploadRows :
              LET decoded == DecodeRow(row, h[r].cols)
              IN  /\ decoded.tag = "malformed-width" <=> TooFewCells(row, h[r].cols)
                  /\ ( /\ ShortOfDateOnly(row, h[r].cols)
                       /\ ~EmptyRequiredCell(row, h[r].cols)
                       /\ ~PriceNotNumber(row, h[r].cols) ) =>
                         /\ decoded.tag = "ok"
                         /\ decoded.rec.date = NoDate
                         /\ RowOutcome(decoded, h[r].seenItems, <<>>) \in {"ok", "dup"}

\* under a first row of five cells that names a date column, a row of four cells
\* was inserted as a record without date
C22_Witness ==
    \E r \in Req :
        /\ PostSucceeded(r)
        /\ h[r].headers = hIdNameCategoryPriceDate
        /\ h[r].cols.dateIdx = 4
        /\ hist[r].nRows = 1
        /\ StoreRecords(AddedRows(r)) = <<recApple>>
        /\ resp[r].stats.total_items = 1

(***************************************************************************)
(* C23.  An entry without rows.                                            *)
(***************************************************************************)
\* request r has read a tabular entry that holds no row at all
ReadEmptyEntry(r) == IsPost(r) /\ hist[r].fault = "empty-entry"

\* C23.  A tabular entry with no rows yields no record and no error: the POST
\* that read one is not answered with an error; it goes on with the remaining
\* entries and, once answered, has returned statistics.
C23_EmptyEntryYieldsNothing ==
    \A r \in Req :
        ReadEmptyEntry(r) =>
            \/ h[r].pc = "entries"
            \/ h[r].pc = "done" /\ resp[r].status = 200

(***************************************************************************)
(* C24.  The seen identity keys live for one POST.                         *)
(***************************************************************************)
\* the keys of the records that the rows of request r decoded to
KeysOf(valid) == {ItemKey(valid[i].rec) : i \in 1..Len(valid)}

\* rows i and j of the valid rows of request r hold the same record in two
\* different tabular entries of its archive
SameRecordInTwoEntries(r, i, j) ==
    /\ i < j
    /\ hist[r].valid[i].rec = hist[r].valid[j].rec
    /\ hist[r].validEntry[i] # hist[r].validEntry[j]

\* C24.  The seen keys of a POST are the keys of the records its own rows
\* decoded to, whatever entry they stood in and whatever earlier POSTs left in
\* the table: a record is counted as a duplicate exactly when an earlier row of
\* the same POST, in the same or in an earlier entry, held it.
C24_SeenKeysOfOnePost ==
    \A r \in Req :
        IsPost(r) =>
            /\ h[r].seenItems = KeysOf(hist[r].valid)
            /\ \A j \in 1..Len(hist[r].valid) :
                  hist[r].valid[j].outcome = "dup" <=>
                     \E i \in 1..(j - 1) : hist[r].valid[i].rec = hist[r].valid[j].rec

\* a POST that arrived when the table held the apple record of an earlier POST,
\* inserted the apple record from its first entry and counted the apple record
\* of its second entry as a duplicate
C24_Witness ==
    \E r \in Req :
        /\ PostSucceeded(r)
        /\ posts = 2
        /\ recApple \in {RowRecord(hist[r].store0[i]) : i \in 1..Len(hist[r].store0)}
        /\ Len(hist[r].valid) = 2
        /\ SameRecordInTwoEntries(r, 1, 2)
        /\ hist[r].valid[1] = [rec |-> recApple, outcome |-> "ok"]
        /\ hist[r].valid[2].outcome = "dup"
        /\ resp[r].stats.duplicates_count = 1

(***************************************************************************)
(* C25.  Order of the stored and of the listed records.                    *)
(***************************************************************************)
\* the row of the first occurrence of record rec among the valid rows
FirstOccurrence(valid, rec) ==
    CHOOSE i \in 1..Len(valid) :
        /\ valid[i].rec = rec
        /\ \A k \in 1..(i - 1) : valid[k].rec # rec

\* the stored rows carry ascending ids
IdsAscend(rows) == \A a, b \in 1..Len(rows) : a < b => rows[a].id < rows[b].id

\* the store accepted every insert of request r
AllAccepted(r) == RowsWith(r, {"conflict", "error"}) = {}

\* C25.  The records a POST inserts reach the table in the order of their
\* first occurrence among its rows and under ascending ids, all unique records
\* when the store accepts every insert; an unfiltered GET that follows the POST
\* lists the stored rows by ascending id, so that its last rows are the records
\* the POST inserted, in first-seen order.
C25_FirstSeenOrder ==
    [][\A r \in Req :
          /\ (IsPost(r) /\ h[r].pc # "idle") =>
                LET added == AddedRows(r)
                IN  /\ IdsAscend(store)
                    /\ Len(added) = Len(InsertedBy(r))
                    /\ \A a, b \in 1..Len(added) :
                          a < b => FirstOccurrence(hist[r].valid, RowRecord(added[a]))
                                     < FirstOccurrence(hist[r].valid, RowRecord(added[b]))
                    /\ AllAccepted(r) => StoreRecords(added) = UniqueOf(hist[r].valid, {})
          /\ RoundTripStep(r) =>
                LET listed == resp'[r].rows
                    n      == Len(InsertedBy(r))
                IN  /\ Len(listed) = Len(store)
                    /\ listed = TableOf(StoreRecords(OrderById({store[i] : i \in 1..Len(store)})))
                    /\ SubSeq(listed, Len(listed) - n + 1, Len(listed)) = TableOf(InsertedBy(r))
                    /\ AllAccepted(r) =>
                          SubSeq(listed, Len(listed) - n + 1, Len(listed))
                             = TableOf(UniqueOf(hist[r].valid, {}))]_vars

\* a GET that follows the first POST, whose rows held bread before apple, lists
\* bread before apple
C25_Witness ==
    \E r \in Req :
        /\ IsGet(r)
        /\ hist[r].afterPost
        /\ hist[r].filters = NoFilters
        /\ hist[r].fault = "none"
        /\ posts = 1
        /\ resp[r].rows = TableOf(<<recBread, recApple>>)

(***************************************************************************)
(* C26.  The naming variants of the header cells.                          *)
(***************************************************************************)
wProduct == <<"p", "r", "o", "d", "u", "c", "t">>
wItem    == <<"i", "t", "e", "m">>
wType    == <<"t", "y", "p", "e">>
wCost    == <<"c", "o", "s", "t">>

\* the words that name a field in a header cell
NamingWords(field) ==
    CASE field = "name" -> {wName, wProduct, wItem}
      [] field = "category" -> {wCategory, wType}
      [] field = "price" -> {wPrice, wCost}

\* the cells of the first row that contain a word naming the field, whatever
\* their case, as 0-based indices
VariantCells(headers, field) ==
    {i \in 0..(Len(headers) - 1) :
        \E word \in NamingWords(field) : Contains(ToLower(headers[i + 1]), word)}

\* C26.  When a cell of the first row contains "name", "product" or "item", the
\* name column is resolved to such a cell; likewise the category column for
\* "category" or "type" and the price column for "price" or "cost".
C26_VariantsResolve ==
    \A r \in Req :
        (IsPost(r) /\ h[r].headers # <<>>) =>
            \A f \in RequiredFields :
                VariantCells(h[r].headers, f) # {} =>
                    IndexOf(h[r].cols, f) \in VariantCells(h[r].headers, f)

(***************************************************************************)
(* C27.  rows_inserted is the number of rows the POST left in the table.   *)
(***************************************************************************)
\* the tabular entries of request r in which a row was inserted
EntriesInsertedFrom(r) == {hist[r].validEntry[i] : i \in RowsWith(r, {"ok"})}

\* C27.  Once a POST is answered with statistics, the number of rows it added
\* to the table is the total_items it reports: the number of its rows, over all
\* tabular entries of the archive, whose insert the store accepted.
C27_InsertedIsReported ==
    \A r \in Req :
        PostSucceeded(r) =>
            /\ Len(store) - Len(hist[r].store0) = resp[r].stats.total_items
            /\ resp[r].stats.total_items = Cardinality(RowsWith(r, {"ok"}))

\* a POST answered with statistics that inserted one row from each of two
\* tabular entries
C27_Witness ==
    \E r \in Req :
        /\ PostSucceeded(r)
        /\ EntriesInsertedFrom(r) = {1, 2}
        /\ resp[r].stats.total_items = 2
        /\ Len(AddedRows(r)) = 2

(***************************************************************************)
(* C28.  The identity key tells records apart.                             *)
(***************************************************************************)
\* C28.  Among the records a POST reads, two have the same identity key exactly
\* when they have equal name, category, price and date; a record is counted as
\* a duplicate only if an earlier row of the POST held a record equal to it in
\* all four fields.
C28_KeyTellsRecordsApart ==
    \A r \in Req :
        IsPost(r) =>
            \A i, j \in 1..Len(hist[r].valid) :
                /\ ItemKey(hist[r].valid[i].rec) = ItemKey(hist[r].valid[j].rec)
                      <=> hist[r].valid[i].rec = hist[r].valid[j].rec
                /\ hist[r].valid[j].outcome = "dup" =>
                      \E k \in 1..(j - 1) : hist[r].valid[k].rec = hist[r].valid[j].rec

(***************************************************************************)
(* C29.  Every POST is answered.                                           *)
(***************************************************************************)
\* the handler of request r is reading the archive of a POST
Reading(r) == IsPost(r) /\ h[r].pc \in {"entries", "rows"}

\* C29.  The row loop ends for every entry content, also when reading the
\* entry keeps failing: a POST whose archive is being read is eventually
\* answered.
C29_EveryPostIsAnswered ==
    \A r \in Req : Reading(r) ~> (h[r].pc = "done")

====
